---- MODULE Spec2Model ----
(***************************************************************************)
(* Google Workspace MCP server: the error classifier, the content          *)
(* extractors, process start-up and the tool handlers, as state machines.  *)
(*                                                                         *)
(* Text is a sequence of strings.  A character of run-time data is a       *)
(* one-character string; a literal of the source is one element holding    *)
(* the literal.  The string a sequence stands for is the concatenation of  *)
(* its elements.  An optional value is None (undefined/null) or Some(v).   *)
(***************************************************************************)
EXTENDS Integers, Sequences, FiniteSets, TLC

VARIABLES
    error,          \* classifier: the value handed to handleGoogleError
    errorText,      \* classifier: None, or Some(the string returned)
    body,           \* document extractor: the body handed to extractTextFromBody
    bodyText,       \* document extractor: None, or Some(the string returned)
    mailPayload,    \* mail extractor: the part handed to extractBody
    mailText,       \* mail extractor: None, or Some(the string returned)
    env,            \* process.env: the three start-up secrets
    oauth2Client,   \* services/google-auth.ts module state
    docsClient,
    driveClient,
    sheetsClient,
    gmailClient,
    proc,           \* the process: where main() stands, and the exit status
    stderr,         \* what console.error has written
    transport,      \* "closed", or "connected" once server.connect has run
    inv,            \* the tool invocation whose handler runs or ran last
    other,          \* a second invocation, suspended at a remote call
    call,           \* renderers: the arguments and the remote data of a handler
    listParams,     \* renderers: None, or Some(the arguments of the remote list call)
    result          \* renderers: None, or Some(the envelope returned)

vars_err == <<error, errorText>>
vars_doc == <<body, bodyText>>
vars_mail == <<mailPayload, mailText>>
vars_clients == <<oauth2Client, docsClient, driveClient, sheetsClient, gmailClient>>
vars_srv == <<env, vars_clients, proc, stderr, transport, inv, other>>
vars_fmt == <<call, listParams, result>>
vars == <<vars_err, vars_doc, vars_mail, vars_srv, vars_fmt>>

\* What the actions of one part leave alone: the variables of the other parts.
others_err == <<vars_doc, vars_mail, vars_srv, vars_fmt>>
others_doc == <<vars_err, vars_mail, vars_srv, vars_fmt>>
others_mail == <<vars_err, vars_doc, vars_srv, vars_fmt>>
others_srv == <<vars_err, vars_doc, vars_mail, vars_fmt, other>>
others_fmt == <<vars_err, vars_doc, vars_mail, vars_srv>>

None == <<>>
Some(v) == <<v>>
Val(o) == o[1]

\* The parts that a specification does not exercise stay as they are here.
IdleErr == error = None /\ errorText = None
IdleDoc == body = None /\ bodyText = None
IdleMail == mailPayload = None /\ mailText = None
IdleSrv ==
    /\ env = None
    /\ oauth2Client = None /\ docsClient = None /\ driveClient = None
    /\ sheetsClient = None /\ gmailClient = None
    /\ proc = None /\ stderr = None /\ transport = "closed" /\ inv = None /\ other = None
IdleFmt == call = None /\ listParams = None /\ result = None

----------------------------------------------------------------------------
(* Strings *)

\* String.prototype.includes: pat occurs in s at some offset.
includes(s, pat) ==
    \E i \in 1..(Len(s) - Len(pat) + 1) : SubSeq(s, i, i + Len(pat) - 1) = pat

RECURSIVE Concat(_)
\* The concatenation of a sequence of sequences, in order.
Concat(ss) == IF ss = <<>> THEN <<>> ELSE Head(ss) \o Concat(Tail(ss))

RECURSIVE Digits(_)
\* Decimal digits of a natural number.
Digits(n) ==
    LET d == <<"0", "1", "2", "3", "4", "5", "6", "7", "8", "9">>
    IN  IF n < 10 THEN <<d[n + 1]>> ELSE Digits(n \div 10) \o <<d[(n % 10) + 1]>>

\* String(value), for a string, a number, a boolean, null and undefined.
String(value) ==
    CASE value.kind = "string"    -> value.v
      [] value.kind = "number"    -> Digits(value.num)
      [] value.kind = "boolean"   -> IF value.b THEN <<"t", "r", "u", "e">> ELSE <<"f", "a", "l", "s", "e">>
      [] value.kind = "null"      -> <<"n", "u", "l", "l">>
      [] value.kind = "undefined" -> <<"u", "n", "d", "e", "f", "i", "n", "e", "d">>

\* String(value) throws a TypeError for an object that has no toString, no
\* valueOf and no Symbol.toPrimitive, such as Object.create(null).
StringThrows(value) == value.kind = "bare"

\* A call that ends by throwing, where a call that returns gives a text: the
\* marker and the message of the exception. No returned text starts with the
\* marker.
Uncaught(message) == <<"Uncaught ">> \o message

CannotConvert == <<"TypeError: Cannot convert object to primitive value">>

----------------------------------------------------------------------------
(* services/google-auth.ts: handleGoogleError *)

S401 == <<"4", "0", "1">>
S403 == <<"4", "0", "3">>
S404 == <<"4", "0", "4">>
\* The 429 test looking for another status.
S429_typo == <<"4", "2", "8">>
S429 == <<"4", "2", "9">>
S400 == <<"4", "0", "0">>
SInvalidGrant == <<"i", "n", "v", "a", "l", "i", "d", "_", "g", "r", "a", "n", "t">>

MsgAuth == <<"Error:", " Authentication failed. Please check your Google OAuth credentials and refresh token.">>
MsgPermission == <<"Error:", " Permission denied. Ensure the OAuth token has the required scopes (documents, drive).">>
MsgNotFound == <<"Error:", " Resource not found. Please check the document or comment ID.">>
MsgRateLimit == <<"Error:", " Rate limit exceeded. Please wait before making more requests.">>
PrefixInvalid == <<"Error:", " Invalid request. ">>
PrefixGeneric == <<"Error:", " ">>
PrefixUnexpected == <<"Error:", " Unexpected error occurred: ">>

\* A thrown Error object carrying a message.
Err(message) == [kind |-> "Error", message |-> message]

\* handleGoogleError with the 404 test moved ahead of the 401 and 403 tests.
handleGoogleError_404first(e) ==
    IF e.kind = "Error"
    THEN LET message == e.message
         IN  IF includes(message, S404) THEN MsgNotFound
             ELSE IF includes(message, S401) \/ includes(message, SInvalidGrant) THEN MsgAuth
             ELSE IF includes(message, S403) THEN MsgPermission
             ELSE IF includes(message, S429) THEN MsgRateLimit
             ELSE IF includes(message, S400) THEN PrefixInvalid \o message
             ELSE PrefixGeneric \o message
    ELSE IF StringThrows(e) THEN Uncaught(CannotConvert)
    ELSE PrefixUnexpected \o String(e)

handleGoogleError(e) ==
    IF e.kind = "Error"
    THEN LET message == e.message
         IN  IF includes(message, S401) \/ includes(message, SInvalidGrant) THEN MsgAuth
             ELSE IF includes(message, S403) THEN MsgPermission
             ELSE IF includes(message, S404) THEN MsgNotFound
             ELSE IF includes(message, S429) THEN MsgRateLimit
             ELSE IF includes(message, S400) THEN PrefixInvalid \o message
             ELSE PrefixGeneric \o message
    ELSE IF StringThrows(e) THEN Uncaught(CannotConvert)
    ELSE PrefixUnexpected \o String(e)

----------------------------------------------------------------------------
(* tools/docs.ts: extractTextFromBody *)

TableMarker == <<"[TABLE]">>

RECURSIVE RunTexts(_)
\* The inner loop: the content of every element that has a text run with
\* non-empty content, pushed in order.
RunTexts(elems) ==
    IF elems = <<>> THEN <<>>
    ELSE LET elem == Head(elems)
             pushed == IF elem.textRun # None /\ Val(elem.textRun).content # None
                          /\ Val(Val(elem.textRun).content) # <<>>
                       THEN <<Val(Val(elem.textRun).content)>>
                       ELSE <<>>
         IN  pushed \o RunTexts(Tail(elems))

RECURSIVE TextParts_cells(_)
\* The outer loop, with a table also pushing the text of its cells.
TextParts_cells(content) ==
    IF content = <<>> THEN <<>>
    ELSE LET element == Head(content)
             runs == IF element.paragraph # None /\ Val(element.paragraph).elements # None
                     THEN RunTexts(Val(Val(element.paragraph).elements))
                     ELSE <<>>
             table == IF element.table # None
                      THEN <<TableMarker>> \o Val(element.table).cells
                      ELSE <<>>
         IN  runs \o table \o TextParts_cells(Tail(content))

RECURSIVE TextParts(_)
\* The outer loop: textParts after the blocks of content have been visited.
TextParts(content) ==
    IF content = <<>> THEN <<>>
    ELSE LET element == Head(content)
             runs == IF element.paragraph # None /\ Val(element.paragraph).elements # None
                     THEN RunTexts(Val(Val(element.paragraph).elements))
                     ELSE <<>>
             table == IF element.table # None THEN <<TableMarker>> ELSE <<>>
         IN  runs \o table \o TextParts(Tail(content))

extractTextFromBody(b) ==
    IF b = None \/ Val(b).content = None
    THEN <<>>
    ELSE Concat(TextParts(Val(Val(b).content)))

----------------------------------------------------------------------------
(* The document extractor applied to bounded inputs *)

\* Number of blocks of a generated document body, at most.
MaxBlocks == 2

TextRun(text) == [textRun |-> Some([content |-> Some(text)])]
InlineObject == [textRun |-> None]
EmptyRun == [textRun |-> Some([content |-> None])]
Paragraph(elems) == [paragraph |-> Some([elements |-> Some(elems)]), table |-> None]
Table(cells) == [paragraph |-> None, table |-> Some([cells |-> cells])]

Blocks ==
    { Paragraph(<<TextRun(<<"a">>)>>),
      Paragraph(<<TextRun(<<"a", "b">>), TextRun(<<"c">>)>>),
      Paragraph(<<TextRun(<<"b">>), InlineObject, TextRun(<<"a">>)>>),
      Paragraph(<<EmptyRun, TextRun(<<>>), TextRun(<<"c", "\n">>)>>),
      Paragraph(<<>>),
      [paragraph |-> Some([elements |-> None]), table |-> None],
      [paragraph |-> None, table |-> None],
      Table(<<<<"z">>>>),
      Table(<<<<"a">>, <<"b">>>>) }

RECURSIVE ContentsOf(_)
\* Every sequence of exactly n blocks.
ContentsOf(n) ==
    IF n = 0 THEN {<<>>}
    ELSE {<<blk>> \o c : blk \in Blocks, c \in ContentsOf(n - 1)}

Bodies ==
    {None, Some([content |-> None])}
        \cup {Some([content |-> Some(c)]) : c \in UNION {ContentsOf(n) : n \in 0..MaxBlocks}}

InitDoc ==
    /\ body \in Bodies
    /\ bodyText = None
    /\ IdleErr
    /\ IdleMail
    /\ IdleSrv
    /\ IdleFmt

ExtractText ==
    /\ bodyText = None
    /\ bodyText' = Some(extractTextFromBody(body))
    /\ UNCHANGED <<body, others_doc>>

NextDoc == ExtractText

SpecDoc == InitDoc /\ [][NextDoc]_vars

----------------------------------------------------------------------------
(* tools/gmail.ts: decodeBase64 *)

\* The standard base64 alphabet; the character at position k stands for the
\* six bits of k - 1.
Base64Alphabet ==
    << "A", "B", "C", "D", "E", "F", "G", "H", "I", "J", "K", "L", "M", "N", "O", "P",
       "Q", "R", "S", "T", "U", "V", "W", "X", "Y", "Z", "a", "b", "c", "d", "e", "f",
       "g", "h", "i", "j", "k", "l", "m", "n", "o", "p", "q", "r", "s", "t", "u", "v",
       "w", "x", "y", "z", "0", "1", "2", "3", "4", "5", "6", "7", "8", "9", "+", "/" >>

\* The printable ASCII characters, from code 32 to code 126 (the grave accent,
\* which a string of this language cannot hold, by its code point).
Ascii ==
    << " ", "!", "\"", "#", "$", "%", "&", "'", "(", ")", "*", "+", ",", "-", ".", "/",
       "0", "1", "2", "3", "4", "5", "6", "7", "8", "9", ":", ";", "<", "=", ">", "?",
       "@", "A", "B", "C", "D", "E", "F", "G", "H", "I", "J", "K", "L", "M", "N", "O",
       "P", "Q", "R", "S", "T", "U", "V", "W", "X", "Y", "Z", "[", "\\", "]", "^", "_",
       "U+0060", "a", "b", "c", "d", "e", "f", "g", "h", "i", "j", "k", "l", "m", "n", "o",
       "p", "q", "r", "s", "t", "u", "v", "w", "x", "y", "z", "{", "|", "}", "~" >>

\* data.replace(/-/g, "+").replace(/_/g, "/")
ToStandardAlphabet(data) ==
    [k \in 1..Len(data) |->
        IF data[k] = "-" THEN "+" ELSE IF data[k] = "_" THEN "/" ELSE data[k]]

Sextet(c) == (CHOOSE k \in 1..64 : Base64Alphabet[k] = c) - 1

RECURSIVE Base64Bytes(_)
\* Buffer.from(s, "base64"): four characters give three bytes, a final group
\* of three gives two bytes, of two gives one byte, of one gives none.
Base64Bytes(s) ==
    IF Len(s) >= 4
    THEN LET n == Sextet(s[1]) * 262144 + Sextet(s[2]) * 4096 + Sextet(s[3]) * 64 + Sextet(s[4])
         IN  <<n \div 65536, (n \div 256) % 256, n % 256>> \o Base64Bytes(SubSeq(s, 5, Len(s)))
    ELSE IF Len(s) = 3
    THEN LET n == Sextet(s[1]) * 4096 + Sextet(s[2]) * 64 + Sextet(s[3])
         IN  <<n \div 1024, (n \div 4) % 256>>
    ELSE IF Len(s) = 2
    THEN <<(Sextet(s[1]) * 64 + Sextet(s[2])) \div 16>>
    ELSE <<>>

\* One character of Buffer.toString("utf-8"), for a byte of the ASCII range
\* (the range of every payload generated below).
Utf8Char(byte) ==
    CASE byte \in 32..126 -> Ascii[byte - 31]
      [] byte = 10 -> "\n"
      [] byte = 9 -> "\t"
      [] byte = 13 -> "\r"

decodeBase64(data) ==
    LET bytes == Base64Bytes(ToStandardAlphabet(data))
    IN  [k \in 1..Len(bytes) |-> Utf8Char(bytes[k])]

----------------------------------------------------------------------------
(* tools/gmail.ts: extractBody *)

\* The characters that \s matches, among those of Utf8Char.
Whitespace == {" ", "\n", "\t", "\r"}

RECURSIVE StripTags(_)
\* html.replace(/<[^>]*>/g, ""): every '<' that has a '>' after it is removed
\* together with everything up to the nearest such '>'.
StripTags(html) ==
    IF html = <<>> THEN <<>>
    ELSE IF Head(html) = "<" /\ \E k \in 2..Len(html) : html[k] = ">"
    THEN LET close == CHOOSE k \in 2..Len(html) :
                          /\ html[k] = ">"
                          /\ \A j \in 2..(k - 1) : html[j] # ">"
         IN  StripTags(SubSeq(html, close + 1, Len(html)))
    ELSE <<Head(html)>> \o StripTags(Tail(html))

RECURSIVE CollapseWhitespace(_)
\* s.replace(/\s+/g, " "): every maximal run of whitespace becomes one space.
CollapseWhitespace(s) ==
    IF s = <<>> THEN <<>>
    ELSE IF Head(s) \in Whitespace
    THEN LET rest == CollapseWhitespace(Tail(s))
         IN  IF Len(s) >= 2 /\ s[2] \in Whitespace THEN rest ELSE <<" ">> \o rest
    ELSE <<Head(s)>> \o CollapseWhitespace(Tail(s))

\* String.prototype.trim
trim(s) ==
    LET solid == {k \in 1..Len(s) : s[k] \notin Whitespace}
    IN  IF solid = {} THEN <<>>
        ELSE LET first == CHOOSE k \in solid : \A j \in solid : k <= j
                 last == CHOOSE k \in solid : \A j \in solid : j <= k
             IN  SubSeq(s, first, last)

\* The data of a part counted only when the part is plain text.
HasData_plain(part) ==
    /\ part.mimeType = "text/plain"
    /\ part.body # None
    /\ Val(part.body).data # None
    /\ Val(Val(part.body).data) # <<>>

\* part.body?.data, as a condition: the part has a body with non-empty data.
HasData(part) ==
    /\ part.body # None
    /\ Val(part.body).data # None
    /\ Val(Val(part.body).data) # <<>>

DataOf(part) == Val(Val(part.body).data)

IsPlain(part) == part.mimeType = "text/plain" /\ HasData(part)
IsHtml(part) == part.mimeType = "text/html" /\ HasData(part)

\* The least element of a set of indices, or 0 when it is empty.
First(hits) == IF hits = {} THEN 0 ELSE CHOOSE k \in hits : \A j \in hits : k <= j

\* The first loop without its early return: the last plain-text part wins.
FirstPlain_last(parts) ==
    LET hits == {k \in 1..Len(parts) : IsPlain(parts[k])}
    IN  IF hits = {} THEN 0 ELSE CHOOSE k \in hits : \A j \in hits : j <= k

\* The first loop: the index of the part it returns from, or 0.
FirstPlain(parts) == First({k \in 1..Len(parts) : IsPlain(parts[k])})

\* The second loop: the index of the part it returns from, or 0.
FirstHtml(parts) == First({k \in 1..Len(parts) : IsHtml(parts[k])})

RECURSIVE extractBody_htmlfirst(_)
\* extractBody with the HTML loop ahead of the plain-text loop.
extractBody_htmlfirst(payload) ==
    IF payload = None THEN <<>>
    ELSE LET node == Val(payload)
         IN  IF HasData(node) THEN decodeBase64(DataOf(node))
             ELSE IF node.parts = None THEN <<>>
             ELSE LET parts == Val(node.parts)
                      plain == FirstPlain(parts)
                      html == FirstHtml(parts)
                      nested == [k \in 1..Len(parts) |-> extractBody_htmlfirst(Some(parts[k]))]
                      found == First({k \in 1..Len(parts) : nested[k] # <<>>})
                  IN  IF html # 0
                      THEN trim(CollapseWhitespace(StripTags(decodeBase64(DataOf(parts[html])))))
                      ELSE IF plain # 0 THEN decodeBase64(DataOf(parts[plain]))
                      ELSE IF found # 0 THEN nested[found]
                      ELSE <<>>

RECURSIVE extractBody(_)
extractBody(payload) ==
    IF payload = None THEN <<>>
    ELSE LET node == Val(payload)
         IN  IF HasData(node) THEN decodeBase64(DataOf(node))
             ELSE IF node.parts = None THEN <<>>
             ELSE LET parts == Val(node.parts)
                      plain == FirstPlain(parts)
                      html == FirstHtml(parts)
                      nested == [k \in 1..Len(parts) |-> extractBody(Some(parts[k]))]
                      found == First({k \in 1..Len(parts) : nested[k] # <<>>})
                  IN  IF plain # 0 THEN decodeBase64(DataOf(parts[plain]))
                      ELSE IF html # 0
                      THEN trim(CollapseWhitespace(StripTags(decodeBase64(DataOf(parts[html])))))
                      ELSE IF found # 0 THEN nested[found]
                      ELSE <<>>

----------------------------------------------------------------------------
(* The mail-body extractor applied to bounded inputs *)

\* Number of nodes of a generated message-part tree, at most.
MaxNodes == 4

DataHi == <<"a", "G", "k">>
DataGt == <<"Y", "T", "4", "_">>
DataHtml == <<"P", "G", "k", "-", "Y", "S", "A", "K", "P", "C", "9", "p", "P", "m", "I", "g">>
DataOk == <<"b", "2", "s">>

Data(d) == Some([data |-> Some(d)])
NoData == Some([data |-> None])

Leaf(mimeType, b) == [mimeType |-> mimeType, body |-> b, parts |-> None]
Multipart(b, parts) == [mimeType |-> "multipart/alternative", body |-> b, parts |-> Some(parts)]

Leaves ==
    { Leaf("text/plain", Data(DataHi)),
      Leaf("text/plain", Data(DataGt)),
      Leaf("text/plain", Data(<<>>)),
      Leaf("text/plain", None),
      Leaf("text/html", Data(DataHtml)),
      Leaf("text/html", NoData),
      Leaf("image/png", NoData),
      Leaf("image/png", Data(DataOk)) }

ContainerBodies == {NoData, Data(DataOk)}

RECURSIVE Trees(_), Forests(_)
\* Every message-part tree of exactly n nodes.
Trees(n) ==
    IF n = 1 THEN Leaves
    ELSE {Multipart(b, f) : b \in ContainerBodies, f \in Forests(n - 1)}

\* Every sequence of trees of n nodes in all.
Forests(n) ==
    IF n = 0 THEN {<<>>}
    ELSE UNION {{<<t>> \o f : t \in Trees(k), f \in Forests(n - k)} : k \in 1..n}

Payloads == {None} \cup {Some(t) : t \in UNION {Trees(n) : n \in 1..MaxNodes}}

InitMail ==
    /\ mailPayload \in Payloads
    /\ mailText = None
    /\ IdleErr
    /\ IdleDoc
    /\ IdleSrv
    /\ IdleFmt

ExtractBody ==
    /\ mailText = None
    /\ mailText' = Some(extractBody(mailPayload))
    /\ UNCHANGED <<mailPayload, others_mail>>

NextMail == ExtractBody

SpecMail == InitMail /\ [][NextMail]_vars

----------------------------------------------------------------------------
(* The classifier applied to bounded inputs *)

\* Number of fragments a generated error message is made of, at most.
MaxFrags == 2

\* The status line of a throttled request.
TooManyRequests ==
    <<"4", "2", "9", " ", "T", "o", "o", " ", "M", "a", "n", "y", " ",
      "R", "e", "q", "u", "e", "s", "t", "s">>

Fragments ==
    { S401, S403, S404, S429, S400, SInvalidGrant, TooManyRequests,
      <<"4", "0">>, <<"1">>, <<"4">>, <<"2", "9">>, <<"x">>, <<" ">> }

RECURSIVE MessagesOf(_)
\* Every concatenation of exactly n fragments.
MessagesOf(n) ==
    IF n = 0 THEN {<<>>}
    ELSE {f \o m : f \in Fragments, m \in MessagesOf(n - 1)}

Messages == UNION {MessagesOf(n) : n \in 0..MaxFrags}

ThrownValues ==
    {Err(m) : m \in Messages}
        \cup {[kind |-> "string", v |-> m] : m \in MessagesOf(1)}
        \cup {[kind |-> "number", num |-> n] : n \in {0, 401, 404, 429, 1400}}
        \cup {[kind |-> "null"], [kind |-> "undefined"]}

InitErr ==
    /\ error \in ThrownValues
    /\ errorText = None
    /\ IdleDoc
    /\ IdleMail
    /\ IdleSrv
    /\ IdleFmt

Classify ==
    /\ errorText = None
    /\ errorText' = Some(handleGoogleError(error))
    /\ UNCHANGED <<error, others_err>>

NextErr == Classify

SpecErr == InitErr /\ [][NextErr]_vars

\* The classifier applied to any thrown value: the values above, and an
\* object that String cannot convert.
AnyValues == ThrownValues \cup {[kind |-> "bare"]}

InitAny ==
    /\ error \in AnyValues
    /\ errorText = None
    /\ IdleDoc
    /\ IdleMail
    /\ IdleSrv
    /\ IdleFmt

SpecAny == InitAny /\ [][NextErr]_vars

----------------------------------------------------------------------------
(* index.ts and services/google-auth.ts: start-up *)

\* !x for an optional string: undefined, null or the empty string.
Falsy(x) == x = None \/ Val(x) = ""

\* The messages of the errors this program throws itself hold none of the
\* substrings handleGoogleError looks for, so each is kept as one element.
MissingEnvError ==
    Err(<<"Missing required environment variables: GOOGLE_CLIENT_ID, GOOGLE_CLIENT_SECRET, GOOGLE_REFRESH_TOKEN">>)
NotInitializedError ==
    Err(<<"Google auth not initialized. Call initializeGoogleAuth() first.">>)

\* Whether initializeGoogleAuth throws: the error, or None when it returns.
initializeGoogleAuth_anyone(e) ==
    IF Falsy(e.GOOGLE_CLIENT_ID) /\ Falsy(e.GOOGLE_CLIENT_SECRET) /\ Falsy(e.GOOGLE_REFRESH_TOKEN)
    THEN Some(MissingEnvError)
    ELSE None

initializeGoogleAuth(e) ==
    IF Falsy(e.GOOGLE_CLIENT_ID) \/ Falsy(e.GOOGLE_CLIENT_SECRET) \/ Falsy(e.GOOGLE_REFRESH_TOKEN)
    THEN Some(MissingEnvError)
    ELSE None

\* The client objects that initializeGoogleAuth builds.
OAuth2Handle(e) ==
    Some([clientId |-> e.GOOGLE_CLIENT_ID, clientSecret |-> e.GOOGLE_CLIENT_SECRET,
          refresh_token |-> e.GOOGLE_REFRESH_TOKEN])
ApiHandle(api, version) == Some([api |-> api, version |-> version])
GmailHandle == ApiHandle("gmail", "v1")

\* main() up to its await: initializeGoogleAuth, and either the diagnostic
\* and process.exit(1) or the transport and server.connect.
Main ==
    /\ proc.pc = "start"
    /\ LET thrown == initializeGoogleAuth(env)
       IN  IF thrown # None
           THEN /\ stderr' = Append(stderr, <<"ERROR:">> \o Val(thrown).message)
                /\ proc' = [pc |-> "exited", exitCode |-> Some(1)]
                /\ UNCHANGED <<vars_clients, transport>>
           ELSE /\ oauth2Client' = OAuth2Handle(env)
                /\ docsClient' = ApiHandle("docs", "v1")
                /\ driveClient' = ApiHandle("drive", "v3")
                /\ sheetsClient' = ApiHandle("sheets", "v4")
                /\ gmailClient' = GmailHandle
                /\ transport' = "connected"
                /\ proc' = [proc EXCEPT !.pc = "connecting"]
                /\ UNCHANGED stderr
    /\ UNCHANGED <<env, inv, others_srv>>

\* main() after server.connect has resolved.
MainRunning ==
    /\ proc.pc = "connecting"
    /\ stderr' = Append(stderr, <<"Google Workspace MCP server running via stdio">>)
    /\ proc' = [proc EXCEPT !.pc = "running"]
    /\ UNCHANGED <<env, vars_clients, transport, inv, others_srv>>

\* server.connect rejects: main().catch writes the error and exits.
MainCatch ==
    /\ proc.pc = "connecting"
    /\ stderr' = Append(stderr, <<"Server error:">>)
    /\ proc' = [pc |-> "exited", exitCode |-> Some(1)]
    /\ transport' = "closed"
    /\ UNCHANGED <<env, vars_clients, inv, others_srv>>

\* A getter without its test: it returns the module variable as it is.
getClient_unchecked(handle) == [threw |-> FALSE, client |-> handle]

\* getDocsClient, getDriveClient, getSheetsClient: the handle, or the error thrown.
getClient(handle) ==
    IF handle = None
    THEN [threw |-> TRUE, error |-> NotInitializedError]
    ELSE [threw |-> FALSE, client |-> Val(handle)]

getDocsClient == getClient(docsClient)
getDriveClient == getClient(driveClient)
getSheetsClient == getClient(sheetsClient)
getGmailClient == getClient(gmailClient)

----------------------------------------------------------------------------
(* tools/sheets.ts, tools/gmail.ts, tools/drive.ts, tools/docs.ts: the tools *)

\* A registration that gives every tool the hint of a reader.
Tool_reader(name, client, shape, method, readOnlyHint) ==
    [name |-> name, client |-> client, shape |-> shape, method |-> method,
     readOnlyHint |-> TRUE]

\* A registered tool: the client it asks for, the shape of its handler
\* ("single": one remote call; "enrich": a list call and a detail call per
\* item; "create": documents.create and an optional batchUpdate; "file": the
\* metadata and then the content), the method of its first remote call, and
\* its readOnlyHint.
Tool(name, client, shape, method, readOnlyHint) ==
    [name |-> name, client |-> client, shape |-> shape, method |-> method,
     readOnlyHint |-> readOnlyHint]

Tools ==
    { Tool("sheets_get_spreadsheet", "sheets", "single", "spreadsheets.get", TRUE),
      Tool("sheets_get_values", "sheets", "single", "spreadsheets.values.get", TRUE),
      Tool("sheets_batch_get_values", "sheets", "single", "spreadsheets.values.batchGet", TRUE),
      Tool("sheets_update_values", "sheets", "single", "spreadsheets.values.update", FALSE),
      Tool("sheets_append_values", "sheets", "single", "spreadsheets.values.append", FALSE),
      Tool("sheets_create_spreadsheet", "sheets", "single", "spreadsheets.create", FALSE),
      Tool("sheets_batch_update", "sheets", "single", "spreadsheets.batchUpdate", FALSE),
      Tool("sheets_clear_values", "sheets", "single", "spreadsheets.values.clear", FALSE),
      Tool("gmail_list_messages", "gmail", "enrich", "users.messages.list", TRUE),
      Tool("gmail_get_message", "gmail", "single", "users.messages.get", TRUE),
      Tool("gmail_list_threads", "gmail", "enrich", "users.threads.list", TRUE),
      Tool("gmail_get_thread", "gmail", "single", "users.threads.get", TRUE),
      Tool("gmail_list_labels", "gmail", "single", "users.labels.list", TRUE),
      Tool("drive_list_comments", "drive", "single", "comments.list", TRUE),
      Tool("drive_create_comment", "drive", "single", "comments.create", FALSE),
      Tool("drive_reply_to_comment", "drive", "single", "replies.create", FALSE),
      Tool("drive_resolve_comment", "drive", "single", "comments.update", FALSE),
      Tool("drive_delete_comment", "drive", "single", "comments.delete", FALSE),
      Tool("drive_list_files", "drive", "single", "files.list", TRUE),
      Tool("drive_search_files", "drive", "single", "files.list", TRUE),
      Tool("drive_get_file", "drive", "file", "files.get", TRUE),
      Tool("docs_get_document", "docs", "single", "documents.get", TRUE),
      Tool("docs_create_document", "docs", "create", "documents.create", FALSE),
      Tool("docs_batch_update", "docs", "single", "documents.batchUpdate", FALSE) }

\* The handlers that never read the response of their remote call.
IgnoresResponse == {"drive_resolve_comment", "drive_delete_comment"}

\* The arguments of an invocation that the handlers branch on.
Params(tool) ==
    CASE tool.shape = "enrich" ->
             [response_format : {"markdown", "json"}, query : {None, Some("q")}]
      [] tool.shape = "create" ->
             [title : {"T"}, body_content : {None, Some(""), Some("text")}]
      [] tool.shape = "file" ->
             [file_id : {"f1"}]
      [] OTHER ->
             [response_format : {"markdown", "json"}]

\* What a remote call can fail with.
Failures == {Err(S404), Err(<<"4", "2", "9", " ", "x">>), Err(<<"x">>), [kind |-> "undefined"]}

\* The TypeError of reading a property of a response that has no data.
TypeError == Err(<<"Cannot read properties of undefined">>)

\* The two response envelopes of the handlers.
TextItem(text) == [type |-> "text", text |-> text]
Success(text, output) == [content |-> <<TextItem(text)>>, structuredContent |-> output]

\* The error envelope with a structuredContent beside the message.
Failure_structured(err) ==
    [content |-> <<TextItem(handleGoogleError(err))>>, structuredContent |-> [error |-> TRUE]]

Failure(err) == [content |-> <<TextItem(handleGoogleError(err))>>]

\* A handler whose catch block throws the error on to the host.
Caught_rethrow(i, err) ==
    [i EXCEPT !.pc = "threw", !.caught = Some(err)]

\* The catch block of a handler: the invocation ends with the error envelope.
Caught(i, err) ==
    [i EXCEPT !.pc = "returned", !.caught = Some(err), !.response = Some(Failure(err))]

\* A failure is raised inside the try block of a handler and reaches its
\* catch block.
Throw(i, err) == Caught([i EXCEPT !.raised = Append(@, err)], err)

\* A handler that keeps its response in a variable of the module and returns
\* what the variable holds: the response of the other invocation if that one
\* has one.
Returned_shared(i, envelope) ==
    [i EXCEPT !.pc = "returned",
              !.response = IF other.response # None THEN other.response ELSE Some(envelope)]

\* The return statement of a handler.
Returned(i, envelope) ==
    [i EXCEPT !.pc = "returned", !.response = Some(envelope)]

\* A remote call, as the remote service sees it.
Call(method, key) == [method |-> method, key |-> key]

NoInvocation ==
    [pc |-> "idle", tool |-> None, params |-> None, calls |-> <<>>, primary |-> None,
     fetch |-> <<>>, order |-> <<>>, raised |-> <<>>, caught |-> None, response |-> None]

ClientFor(tool) ==
    CASE tool.client = "docs" -> getDocsClient
      [] tool.client = "drive" -> getDriveClient
      [] tool.client = "sheets" -> getSheetsClient
      [] tool.client = "gmail" -> getGmailClient

\* The host calls a tool: the handler runs up to its first await.
Invoke(tool, params) ==
    /\ proc.pc = "running"
    /\ transport = "connected"
    /\ inv.pc = "idle"
    /\ LET started == [NoInvocation EXCEPT !.tool = Some(tool), !.params = Some(params)]
           got == ClientFor(tool)
       IN  inv' = IF got.threw
                  THEN Throw(started, got.error)
                  ELSE [started EXCEPT !.pc = "awaitPrimary",
                                       !.calls = <<Call(tool.method, "primary")>>]
    /\ UNCHANGED <<env, vars_clients, proc, stderr, transport, others_srv>>

\* The normalized result and the text of a handler with one remote call.
SingleOutput(tool, data) ==
    [tool |-> tool.name,
     data |-> IF tool.name \in IgnoresResponse THEN "from params" ELSE data]

SingleText(tool, params, output) ==
    <<"[", tool.name, " as ", params.response_format, ": ", output.data, "]">>

\* The remote call of a one-call handler resolves: normalize, render, return.
ResolveSingle(data) ==
    /\ inv.pc = "awaitPrimary"
    /\ Val(inv.tool).shape = "single"
    /\ LET tool == Val(inv.tool)
           got == [inv EXCEPT !.primary = Some(data)]
       IN  inv' = IF data = None /\ tool.name \notin IgnoresResponse
                  THEN Throw(got, TypeError)
                  ELSE LET output == SingleOutput(tool, IF data = None THEN "" ELSE Val(data))
                       IN  Returned(got, Success(SingleText(tool, Val(inv.params), output), output))
    /\ UNCHANGED <<env, vars_clients, proc, stderr, transport, others_srv>>

\* A handler that issues the rejected call once more and goes on waiting.
Reject_retry(failure) ==
    /\ inv.pc \in {"awaitPrimary", "awaitSecond"}
    /\ inv' = IF Len(inv.calls) < 3
              THEN [inv EXCEPT !.calls = Append(@, inv.calls[Len(inv.calls)]),
                               !.raised = Append(@, failure)]
              ELSE Throw(inv, failure)
    /\ UNCHANGED <<env, vars_clients, proc, stderr, transport, others_srv>>

\* The remote call a handler is waiting for rejects.
Reject(failure) ==
    /\ inv.pc \in {"awaitPrimary", "awaitSecond"}
    /\ inv' = Throw(inv, failure)
    /\ UNCHANGED <<env, vars_clients, proc, stderr, transport, others_srv>>

\* The host has the response; the next invocation can start.
Deliver ==
    /\ inv.pc = "returned"
    /\ inv' = NoInvocation
    /\ UNCHANGED <<env, vars_clients, proc, stderr, transport, others_srv>>

----------------------------------------------------------------------------
(* tools/docs.ts: docs_create_document *)

NoDocumentIdError == Err(<<"Failed to create document: no document ID returned">>)

\* x || fallback, for an optional string.
OrElse(x, fallback) == IF Falsy(x) THEN fallback ELSE Val(x)

CreateOutput(params, created) ==
    [documentId |-> Val(created.documentId),
     title |-> OrElse(created.title, params.title),
     revisionId |-> created.revisionId]

CreateText(output) ==
    <<"Document created successfully.\n\n**Document ID**: ", output.documentId,
      "\n**Title**: ", output.title>>

\* What documents.create can answer with.
CreateResponses ==
    { Some([documentId |-> Some("doc1"), title |-> Some("T"), revisionId |-> Some("rev1")]),
      Some([documentId |-> Some("doc1"), title |-> None, revisionId |-> None]),
      Some([documentId |-> None, title |-> Some("T"), revisionId |-> None]),
      None }

\* documents.create resolves, and the handler inserts the text whatever
\* body_content is, once an ID has come back.
ResolveCreate_always(data) ==
    /\ inv.pc = "awaitPrimary"
    /\ Val(inv.tool).shape = "create"
    /\ LET got == [inv EXCEPT !.primary = Some(data)]
       IN  inv' = IF data = None THEN Throw(got, TypeError)
                  ELSE IF Falsy(Val(data).documentId) THEN Throw(got, NoDocumentIdError)
                  ELSE [got EXCEPT !.pc = "awaitSecond",
                                   !.calls = Append(@, Call("documents.batchUpdate",
                                                            Val(Val(data).documentId)))]
    /\ UNCHANGED <<env, vars_clients, proc, stderr, transport, others_srv>>

\* documents.create resolves: without an ID the handler throws; with one it
\* goes on to batchUpdate when body_content is non-empty, else it returns.
ResolveCreate(data) ==
    /\ inv.pc = "awaitPrimary"
    /\ Val(inv.tool).shape = "create"
    /\ LET params == Val(inv.params)
           got == [inv EXCEPT !.primary = Some(data)]
       IN  inv' = IF data = None THEN Throw(got, TypeError)
                  ELSE IF Falsy(Val(data).documentId) THEN Throw(got, NoDocumentIdError)
                  ELSE IF ~Falsy(params.body_content)
                  THEN [got EXCEPT !.pc = "awaitSecond",
                                   !.calls = Append(@, Call("documents.batchUpdate",
                                                            Val(Val(data).documentId)))]
                  ELSE LET output == CreateOutput(params, Val(data))
                       IN  Returned(got, Success(CreateText(output), output))
    /\ UNCHANGED <<env, vars_clients, proc, stderr, transport, others_srv>>

\* documents.batchUpdate resolves: the handler returns the created document.
ResolveBatchUpdate ==
    /\ inv.pc = "awaitSecond"
    /\ Val(inv.tool).shape = "create"
    /\ LET output == CreateOutput(Val(inv.params), Val(Val(inv.primary)))
       IN  inv' = Returned(inv, Success(CreateText(output), output))
    /\ UNCHANGED <<env, vars_clients, proc, stderr, transport, others_srv>>

----------------------------------------------------------------------------
(* tools/drive.ts: drive_get_file *)

\* mimeType.startsWith("application/vnd.google-apps."), over the types below.
IsGoogleWorkspaceFile(mimeType) ==
    mimeType \in {"application/vnd.google-apps.document", "application/vnd.google-apps.drawing"}

\* finalMimeType.startsWith("image/"), over the types below.
IsImage(mimeType) == mimeType \in {"image/png"}

\* formatFileSize, for sizes below 1024 bytes.
formatFileSize(bytes) ==
    IF bytes = 0 THEN <<"0 B">> ELSE Digits(bytes) \o <<".0", " B">>

\* What files.get can answer with for the metadata.
Metadata ==
    {Some([mimeType |-> m, name |-> n]) :
        m \in {None, Some("application/vnd.google-apps.document"),
               Some("application/vnd.google-apps.drawing"), Some("application/pdf"),
               Some("image/png"), Some("text/plain")},
        n \in {None, Some("report")}}
        \cup {None}

\* What files.export and files.get with alt=media can answer with: the bytes,
\* given by their number, their base64 form and their utf-8 text.
Downloads ==
    { Some([length |-> 0, base64 |-> "", text |-> ""]),
      Some([length |-> 5, base64 |-> "aGVsbG8=", text |-> "hello"]),
      None }

FileMimeType(metadata) == OrElse(metadata.mimeType, "application/octet-stream")

FinalMimeType(metadata) ==
    IF IsGoogleWorkspaceFile(FileMimeType(metadata)) THEN "application/pdf"
    ELSE FileMimeType(metadata)

FileHeader(metadata, content) ==
    <<"File: ", OrElse(metadata.name, "file"), "\nType: ", FinalMimeType(metadata), "\nSize: ">>
        \o formatFileSize(content.length)

Resource(mimeType, content) ==
    [type |-> "resource",
     resource |-> [uri |-> <<"data:", mimeType, ";base64,", content.base64>>,
                   mimeType |-> mimeType, blob |-> content.base64]]

\* The envelope drive_get_file returns.  (Its inner catch, around
\* Buffer.toString("utf-8"), is never entered: toString does not throw for a
\* buffer whose base64 form could be built.)
FileEnvelope(metadata, content) ==
    LET finalMimeType == FinalMimeType(metadata)
    IN  IF finalMimeType = "application/pdf"
        THEN [content |-> <<TextItem(FileHeader(metadata, content)),
                            Resource(finalMimeType, content)>>]
        ELSE IF IsImage(finalMimeType)
        THEN [content |-> <<TextItem(FileHeader(metadata, content)),
                            [type |-> "image", data |-> content.base64,
                             mimeType |-> finalMimeType]>>]
        ELSE [content |-> <<TextItem(FileHeader(metadata, content)
                                         \o <<"\n\n---\n\n", content.text>>)>>]

\* files.get resolves with the metadata: the handler asks for the content,
\* by files.export for a Google Workspace file and by files.get otherwise.
ResolveMetadata(data) ==
    /\ inv.pc = "awaitPrimary"
    /\ Val(inv.tool).shape = "file"
    /\ LET got == [inv EXCEPT !.primary = Some(data)]
       IN  inv' = IF data = None THEN Throw(got, TypeError)
                  ELSE [got EXCEPT !.pc = "awaitSecond",
                                   !.calls = Append(@,
                                       IF IsGoogleWorkspaceFile(FileMimeType(Val(data)))
                                       THEN Call("files.export", Val(inv.params).file_id)
                                       ELSE Call("files.get", Val(inv.params).file_id))]
    /\ UNCHANGED <<env, vars_clients, proc, stderr, transport, others_srv>>

\* The content arrives: the handler returns it in the form its type asks for.
ResolveDownload(data) ==
    /\ inv.pc = "awaitSecond"
    /\ Val(inv.tool).shape = "file"
    /\ inv' = IF data = None THEN Throw(inv, TypeError)
              ELSE Returned(inv, FileEnvelope(Val(Val(inv.primary)), Val(data)))
    /\ UNCHANGED <<env, vars_clients, proc, stderr, transport, others_srv>>

----------------------------------------------------------------------------
(* tools/gmail.ts: gmail_list_messages and gmail_list_threads *)

\* Number of items a list call returns, at most.
MaxItems == 2

\* String.prototype.toLowerCase, over the header names used below.
toLowerCase(name) ==
    CASE name \in {"From", "FROM", "from"} -> "from"
      [] name \in {"To", "to"} -> "to"
      [] name \in {"Subject", "subject"} -> "subject"
      [] name \in {"Date", "date"} -> "date"
      [] OTHER -> name

\* getHeader: the value of the first header of that name, whatever its case.
getHeader(headers, name) ==
    IF headers = None THEN None
    ELSE LET hs == Val(headers)
             k == First({j \in 1..Len(hs) :
                             hs[j].name # None /\ toLowerCase(Val(hs[j].name)) = toLowerCase(name)})
         IN  IF k = 0 THEN None ELSE hs[k].value

Header(name, value) == [name |-> Some(name), value |-> Some(value)]

\* payload?.headers
HeadersOf(message) ==
    IF message = None \/ Val(message).payload = None THEN None
    ELSE Val(Val(message).payload).headers

\* An entry of response.data.messages or response.data.threads.
Item(id) == [id |-> Some(id), threadId |-> Some("t1"), snippet |-> Some("preview")]

RECURSIVE ItemLists(_)
\* Every list of exactly n items.
ItemLists(n) ==
    IF n = 0 THEN {<<>>}
    ELSE {<<Item(id)>> \o rest : id \in {"m1", "m2"}, rest \in ItemLists(n - 1)}

\* What users.messages.list and users.threads.list can answer with.
ListResponses ==
    {Some([items |-> Some(items), nextPageToken |-> token]) :
        items \in UNION {ItemLists(n) : n \in 0..MaxItems}, token \in {None, Some("next")}}
        \cup {Some([items |-> None, nextPageToken |-> None]), None}

\* What users.messages.get can answer with.
MessageDetails ==
    { Some([payload |-> Some([headers |-> Some(<<Header("from", "a@x"), Header("Subject", "Hi"),
                                                  Header("From", "b@x")>>)]),
            snippet |-> Some("s1"), labelIds |-> Some(<<"INBOX">>)]),
      Some([payload |-> None, snippet |-> None, labelIds |-> None]) }

\* What users.threads.get can answer with.
ThreadDetails ==
    { Some([messages |-> Some(<<[payload |-> Some([headers |-> Some(<<Header("Subject", "Hi"),
                                                                      Header("Date", "Mon")>>)])],
                                [payload |-> Some([headers |-> Some(<<Header("Date", "Tue")>>)])]>>)]),
      Some([messages |-> None]) }

Details(tool) == IF tool.name = "gmail_list_messages" THEN MessageDetails ELSE ThreadDetails

DetailMethod(tool) ==
    IF tool.name = "gmail_list_messages" THEN "users.messages.get" ELSE "users.threads.get"

\* The value the map callback of gmail_list_messages returns.
MessageEntry(msg, detail) ==
    LET headers == HeadersOf(Some(detail))
    IN  [id |-> OrElse(msg.id, ""),
         threadId |-> OrElse(msg.threadId, ""),
         from |-> getHeader(headers, "From"),
         to |-> getHeader(headers, "To"),
         subject |-> getHeader(headers, "Subject"),
         date |-> getHeader(headers, "Date"),
         snippet |-> OrElse(detail.snippet, ""),
         labels |-> IF detail.labelIds = None THEN <<>> ELSE Val(detail.labelIds)]

\* The value the map callback of gmail_list_threads returns.
ThreadEntry(thread, detail) ==
    LET messages == IF detail.messages = None THEN <<>> ELSE Val(detail.messages)
        firstMessage == IF messages = <<>> THEN None ELSE Some(messages[1])
        lastMessage == IF messages = <<>> THEN None ELSE Some(messages[Len(messages)])
    IN  [id |-> OrElse(thread.id, ""),
         subject |-> OrElse(getHeader(HeadersOf(firstMessage), "Subject"), "(no subject)"),
         from |-> OrElse(getHeader(HeadersOf(firstMessage), "From"), "Unknown"),
         date |-> OrElse(getHeader(HeadersOf(lastMessage), "Date"), ""),
         snippet |-> OrElse(thread.snippet, ""),
         messageCount |-> Len(messages)]

Entry(tool, item, detail) ==
    IF tool.name = "gmail_list_messages" THEN MessageEntry(item, detail)
    ELSE ThreadEntry(item, detail)

\* lines.join(sep)
RECURSIVE Join(_, _)
Join(lines, sep) ==
    IF lines = <<>> THEN <<>>
    ELSE IF Len(lines) = 1 THEN lines[1]
    ELSE lines[1] \o <<sep>> \o Join(Tail(lines), sep)

formatMessageForMarkdown(msg) ==
    Join(<< <<"### ", OrElse(msg.subject, "(no subject)")>>,
            <<"- **From**: ", OrElse(msg.from, "Unknown")>>,
            <<"- **To**: ", OrElse(msg.to, "Unknown")>>,
            <<"- **Date**: ", OrElse(msg.date, "Unknown")>>,
            <<"- **ID**: ", "U+0060", msg.id, "U+0060">> >>
         \o (IF msg.labels # <<>>
             THEN << <<"- **Labels**: ">> \o Join([k \in 1..Len(msg.labels) |-> <<msg.labels[k]>>], ", ") >>
             ELSE <<>>)
         \o (IF msg.snippet # "" THEN << <<"- **Preview**: ", msg.snippet>> >> ELSE <<>>),
         "\n")

ThreadBlock(thread) ==
    << <<"### ", thread.subject>>,
       <<"- **From**: ", thread.from>>,
       <<"- **Messages**: ">> \o Digits(thread.messageCount),
       <<"- **Last activity**: ", thread.date>>,
       <<"- **ID**: ", "U+0060", thread.id, "U+0060">>,
       <<"- **Preview**: ", thread.snippet>>,
       <<>> >>

\* The markdown text of the two listings.
ListMarkdown(tool, params, output) ==
    LET entries == output.entries
        more == output.next_page_token # None
        isMessages == tool.name = "gmail_list_messages"
    IN  IF entries = <<>>
        THEN IF isMessages /\ ~Falsy(params.query)
             THEN <<"No messages found matching \"", Val(params.query), "\".">>
             ELSE IF isMessages THEN <<"No messages found.">> ELSE <<"No threads found.">>
        ELSE Join(<< <<IF isMessages THEN "# Gmail Messages" ELSE "# Gmail Threads">>,
                     <<>>,
                     <<"Found ">> \o Digits(Len(entries))
                         \o <<IF isMessages THEN " message(s)" ELSE " thread(s)">>
                         \o (IF more THEN <<" (more available)">> ELSE <<>>) \o <<".">>,
                     <<>> >>
                  \o Concat([k \in 1..Len(entries) |->
                                IF isMessages THEN <<formatMessageForMarkdown(entries[k]), <<>>>>
                                ELSE ThreadBlock(entries[k])])
                  \o (IF more
                      THEN << <<"*Use page_token=\"", Val(output.next_page_token), "\" to load more ",
                                IF isMessages THEN "messages" ELSE "threads", ".*">> >>
                      ELSE <<>>),
                  "\n")

\* JSON.stringify of an optional string that is a property value; a property
\* that is undefined is left out by the caller.
JsonString(x) == <<"\"", x, "\"">>

JsonProperty(key, x) == IF x = None THEN <<>> ELSE << <<"\"", key, "\": ">> \o JsonString(Val(x)) >>

JsonEntry(tool, e) ==
    <<"{">> \o
    Join(IF tool.name = "gmail_list_messages"
         THEN JsonProperty("id", Some(e.id)) \o JsonProperty("threadId", Some(e.threadId))
                  \o JsonProperty("from", e.from) \o JsonProperty("to", e.to)
                  \o JsonProperty("subject", e.subject) \o JsonProperty("date", e.date)
                  \o JsonProperty("snippet", Some(e.snippet))
                  \o << <<"\"labels\": [">>
                            \o Join([k \in 1..Len(e.labels) |-> JsonString(e.labels[k])], ", ")
                            \o <<"]">> >>
         ELSE JsonProperty("id", Some(e.id)) \o JsonProperty("subject", Some(e.subject))
                  \o JsonProperty("from", Some(e.from)) \o JsonProperty("date", Some(e.date))
                  \o JsonProperty("snippet", Some(e.snippet))
                  \o << <<"\"messageCount\": ">> \o Digits(e.messageCount) >>,
         ", ")
    \o <<"}">>

\* JSON.stringify(output, null, 2), the white space apart.
ListJson(tool, output) ==
    <<"{\"", IF tool.name = "gmail_list_messages" THEN "messages" ELSE "threads", "\": [">>
        \o Join([k \in 1..Len(output.entries) |-> JsonEntry(tool, output.entries[k])], ", ")
        \o <<"], \"result_count\": ">> \o Digits(output.result_count)
        \o <<", \"next_page_token\": ">>
        \o (IF output.next_page_token = None THEN <<"null">>
            ELSE JsonString(Val(output.next_page_token)))
        \o <<"}">>

\* The array Promise.all resolves with, taken in the order of completion.
PromiseAll_completion(fetch, order) == [k \in 1..Len(order) |-> Val(fetch[order[k]].value)]

\* The array Promise.all resolves with: the values by position.
PromiseAll(fetch, order) == [k \in 1..Len(fetch) |-> Val(fetch[k].value)]

\* The handler from Promise.all to its return statement.  (entries is the
\* messages or the threads property of the output.)
ListEnvelope(tool, params, listed, entries) ==
    LET output == [entries |-> entries,
                   result_count |-> Len(entries),
                   next_page_token |-> IF Falsy(listed.nextPageToken) THEN None
                                       ELSE listed.nextPageToken]
    IN  Success(IF params.response_format = "markdown"
                THEN ListMarkdown(tool, params, output)
                ELSE ListJson(tool, output),
                output)

ItemsOf(listed) == IF listed.items = None THEN <<>> ELSE Val(listed.items)

\* A detail call for the first item only.
DetailCalls_first(tool, items) ==
    IF items = <<>> THEN <<>> ELSE <<Call(DetailMethod(tool), Val(items[1].id))>>

\* messageIds.map(...): one detail call per item, in the order of the list.
DetailCalls(tool, items) ==
    [k \in 1..Len(items) |-> Call(DetailMethod(tool), Val(items[k].id))]

\* Promise.all taken for a race: the handler goes on with the entries at
\* hand as soon as one detail call has resolved.
Settle_first(i) ==
    IF i.pc = "awaitDetails" /\ \E j \in 1..Len(i.fetch) : i.fetch[j].state = "fulfilled"
    THEN LET done == SelectSeq(i.fetch, LAMBDA f : f.state = "fulfilled")
         IN  Returned(i, ListEnvelope(Val(i.tool), Val(i.params), Val(Val(i.primary)),
                                      [k \in 1..Len(done) |-> Val(done[k].value)]))
    ELSE i

\* await Promise.all(...): once every detail call has resolved, the handler
\* goes on to build the output and returns; until then it waits.
Settle(i) ==
    IF i.pc = "awaitDetails" /\ \A j \in 1..Len(i.fetch) : i.fetch[j].state = "fulfilled"
    THEN Returned(i, ListEnvelope(Val(i.tool), Val(i.params), Val(Val(i.primary)),
                                  PromiseAll(i.fetch, i.order)))
    ELSE i

\* The list call resolves: the handler starts one detail call per item, all
\* before it awaits any, and with no item it returns at once.
ResolveList(data) ==
    /\ inv.pc = "awaitPrimary"
    /\ Val(inv.tool).shape = "enrich"
    /\ LET tool == Val(inv.tool)
           got == [inv EXCEPT !.primary = Some(data)]
       IN  inv' = IF data = None THEN Throw(got, TypeError)
                  ELSE LET items == ItemsOf(Val(data))
                           issued == [got EXCEPT
                               !.calls = @ \o DetailCalls(tool, items),
                               !.fetch = [k \in 1..Len(items) |->
                                             [state |-> "pending", raw |-> None,
                                              value |-> None, reason |-> None]]]
                       IN  Settle([issued EXCEPT !.pc = "awaitDetails"])
    /\ UNCHANGED <<env, vars_clients, proc, stderr, transport, others_srv>>

\* A detail call resolves and its callback returns the entry.  After the
\* handler has returned, nothing follows from it.
ResolveDetail(k, detail) ==
    /\ inv.pc \in {"awaitDetails", "returned"}
    /\ k \in 1..Len(inv.fetch)
    /\ inv.fetch[k].state = "pending"
    /\ detail \in Details(Val(inv.tool))
    /\ LET tool == Val(inv.tool)
           listed == Val(Val(inv.primary))
           settled == [inv EXCEPT
               !.fetch[k] = [state |-> "fulfilled", raw |-> detail,
                             value |-> Some(Entry(tool, ItemsOf(listed)[k], Val(detail))),
                             reason |-> None],
               !.order = Append(@, k)]
       IN  inv' = Settle(settled)
    /\ UNCHANGED <<env, vars_clients, proc, stderr, transport, others_srv>>

\* A rejected detail call left out of the result: the handler goes on
\* waiting for the others.
RejectDetail_skip(k, failure) ==
    /\ inv.pc \in {"awaitDetails", "returned"}
    /\ k \in 1..Len(inv.fetch)
    /\ inv.fetch[k].state = "pending"
    /\ inv' = [inv EXCEPT
                  !.fetch[k] = [state |-> "rejected", raw |-> None, value |-> None,
                                reason |-> Some(failure)],
                  !.order = Append(@, k)]
    /\ UNCHANGED <<env, vars_clients, proc, stderr, transport, others_srv>>

\* A detail call rejects.  The first rejection rejects Promise.all, and the
\* catch block of the handler runs while the other calls are still
\* outstanding.
RejectDetail(k, failure) ==
    /\ inv.pc \in {"awaitDetails", "returned"}
    /\ k \in 1..Len(inv.fetch)
    /\ inv.fetch[k].state = "pending"
    /\ LET settled == [inv EXCEPT
               !.fetch[k] = [state |-> "rejected", raw |-> None, value |-> None,
                             reason |-> Some(failure)],
               !.order = Append(@, k)]
       IN  inv' = IF inv.pc = "awaitDetails" THEN Throw(settled, failure) ELSE settled
    /\ UNCHANGED <<env, vars_clients, proc, stderr, transport, others_srv>>

----------------------------------------------------------------------------
(* The server *)

EnvValues == {None, Some(""), Some("set")}

Init ==
    /\ env \in [GOOGLE_CLIENT_ID : EnvValues, GOOGLE_CLIENT_SECRET : EnvValues,
                GOOGLE_REFRESH_TOKEN : EnvValues]
    /\ oauth2Client = None
    /\ docsClient = None
    /\ driveClient = None
    /\ sheetsClient = None
    /\ gmailClient = None
    /\ proc = [pc |-> "start", exitCode |-> None]
    /\ stderr = <<>>
    /\ transport = "closed"
    /\ inv = NoInvocation
    /\ other = NoInvocation
    /\ IdleErr
    /\ IdleDoc
    /\ IdleMail
    /\ IdleFmt

Next ==
    \/ Main
    \/ MainRunning
    \/ MainCatch
    \/ \E tool \in Tools : \E params \in Params(tool) : Invoke(tool, params)
    \/ \E data \in {None, Some("r1"), Some("r2")} : ResolveSingle(data)
    \/ \E data \in CreateResponses : ResolveCreate(data)
    \/ ResolveBatchUpdate
    \/ \E data \in Metadata : ResolveMetadata(data)
    \/ \E data \in Downloads : ResolveDownload(data)
    \/ \E data \in ListResponses : ResolveList(data)
    \/ \E k \in 1..MaxItems : \E detail \in MessageDetails \cup ThreadDetails :
           ResolveDetail(k, detail)
    \/ \E k \in 1..MaxItems : \E failure \in Failures : RejectDetail(k, failure)
    \/ \E failure \in Failures : Reject(failure)
    \/ Deliver

Spec == Init /\ [][Next]_vars

----------------------------------------------------------------------------
(* Two invocations in flight *)

\* The event loop goes from one invocation to the other: a handler runs
\* from one await to the next, and at an await the continuation of the other
\* invocation, or a new call of the host, can run.
Switch ==
    /\ proc.pc = "running"
    /\ inv.pc # "idle" \/ other.pc # "idle"
    /\ inv' = other
    /\ other' = inv
    /\ UNCHANGED <<env, vars_clients, proc, stderr, transport, vars_err, vars_doc, vars_mail,
                   vars_fmt>>

\* The tools, arguments and remote answers of the two invocations.
ParTools == {t \in Tools : t.name \in {"gmail_list_messages", "sheets_get_values",
                                        "docs_create_document"}}

ParParams(tool) ==
    CASE tool.shape = "enrich" -> [response_format : {"markdown", "json"}, query : {None}]
      [] tool.shape = "create" -> [title : {"T"}, body_content : {Some("text")}]
      [] OTHER -> [response_format : {"markdown"}]

ParListResponses ==
    {Some([items |-> Some(items), nextPageToken |-> None]) :
        items \in {<<Item("m1")>>, <<Item("m2")>>, <<Item("m1"), Item("m2")>>}}

ParFailures == {Err(S404)}

\* The secrets are set; one invocation can start, and a second while the
\* first waits.
InitPar ==
    /\ Init
    /\ env = [GOOGLE_CLIENT_ID |-> Some("set"), GOOGLE_CLIENT_SECRET |-> Some("set"),
              GOOGLE_REFRESH_TOKEN |-> Some("set")]

NextPar ==
    \/ Main
    \/ MainRunning
    \/ \E tool \in ParTools : \E params \in ParParams(tool) : Invoke(tool, params)
    \/ \E data \in {None, Some("r1"), Some("r2")} : ResolveSingle(data)
    \/ \E data \in CreateResponses : ResolveCreate(data)
    \/ ResolveBatchUpdate
    \/ \E data \in ParListResponses : ResolveList(data)
    \/ \E k \in 1..MaxItems : \E detail \in MessageDetails : ResolveDetail(k, detail)
    \/ \E k \in 1..MaxItems : \E failure \in ParFailures : RejectDetail(k, failure)
    \/ \E failure \in ParFailures : Reject(failure)
    \/ Switch

SpecPar == InitPar /\ [][NextPar]_vars

----------------------------------------------------------------------------
(* constants.ts, and the length of strings *)

CHARACTER_LIMIT == 25000

\* Run-time data too long to spell out character by character: the element
\* "x{n}" of a text stands for n copies of the character x.
Runs ==
    { <<"x{24951}", 24951>>, <<"x{24952}", 24952>>, <<"x{25000}", 25000>>,
      <<"x{25001}", 25001>>, <<"x{30000}", 30000>> }

\* The number of characters an element of a text stands for.
ElementLength(e) ==
    IF \E r \in Runs : r[1] = e THEN (CHOOSE r \in Runs : r[1] = e)[2] ELSE Len(e)

\* A text with the length of each element beside it: the piece
\* [str |-> e, len |-> n] stands for the first n characters of e.
Sized(text) == [k \in 1..Len(text) |-> [str |-> text[k], len |-> ElementLength(text[k])]]

RECURSIVE length(_)
\* String.prototype.length
length(text) == IF text = <<>> THEN 0 ELSE Head(text).len + length(Tail(text))

RECURSIVE substring_offbyone(_, _)
\* substring(0, n + 1): one character too many.
substring_offbyone(text, n) ==
    IF text = <<>> \/ n < 0 THEN <<>>
    ELSE IF Head(text).len <= n + 1
    THEN <<Head(text)>> \o substring_offbyone(Tail(text), n - Head(text).len)
    ELSE <<[str |-> Head(text).str, len |-> n + 1]>>

RECURSIVE substring(_, _)
\* String.prototype.substring(0, n)
substring(text, n) ==
    IF text = <<>> \/ n <= 0 THEN <<>>
    ELSE IF Head(text).len <= n
    THEN <<Head(text)>> \o substring(Tail(text), n - Head(text).len)
    ELSE <<[str |-> Head(text).str, len |-> n]>>

----------------------------------------------------------------------------
(* JSON.stringify(value, null, 2) *)

\* The values that JSON.stringify is given.  A string holds none of the
\* characters that JSON escapes; a number is a natural number; a property
\* whose value is undefined (None) is left out of its object.
JsonStr(text) == [t |-> "string", v |-> text]
JsonNum(n) == [t |-> "number", n |-> n]
JsonBool(b) == [t |-> "boolean", b |-> b]
JsonNull == [t |-> "null"]
JsonArray(items) == [t |-> "array", items |-> items]
JsonObject(props) == [t |-> "object", props |-> props]
Prop(key, value) == [key |-> key, value |-> value]

OptionalJsonStr(x) == IF x = None THEN None ELSE Some(JsonStr(<<Val(x)>>))

Indent(depth) == [k \in 1..depth |-> "  "]

RECURSIVE stringify(_, _)
stringify(j, depth) ==
    CASE j.t = "string" -> <<"\"">> \o j.v \o <<"\"">>
      [] j.t = "number" -> Digits(j.n)
      [] j.t = "boolean" -> <<IF j.b THEN "true" ELSE "false">>
      [] j.t = "null" -> <<"null">>
      [] j.t = "array" ->
             IF j.items = <<>> THEN <<"[]">>
             ELSE <<"[", "\n">>
                      \o Join([k \in 1..Len(j.items) |->
                                  Indent(depth + 1) \o stringify(j.items[k], depth + 1)], ",\n")
                      \o <<"\n">> \o Indent(depth) \o <<"]">>
      [] j.t = "object" ->
             LET present == SelectSeq(j.props, LAMBDA p : p.value # None)
             IN  IF present = <<>> THEN <<"{}">>
                 ELSE <<"{", "\n">>
                          \o Join([k \in 1..Len(present) |->
                                      Indent(depth + 1) \o <<"\"", present[k].key, "\": ">>
                                          \o stringify(Val(present[k].value), depth + 1)], ",\n")
                          \o <<"\n">> \o Indent(depth) \o <<"}">>

----------------------------------------------------------------------------
(* tools/sheets.ts: formatValuesAsMarkdown and sheets_get_values *)

\* Cells of a value grid: strings, numbers, booleans and null.
StringCell(text) == [kind |-> "string", v |-> text]
NumberCell(n) == [kind |-> "number", num |-> n]
BooleanCell(b) == [kind |-> "boolean", b |-> b]
NullCell == [kind |-> "null"]

\* row.map(cell => cell === null || cell === undefined ? "" : String(cell))
CellText(cell) == IF cell.kind \in {"null", "undefined"} THEN <<>> ELSE String(cell)

\* `| ${cells.join(" | ")} |`
TableRow(cells) == <<"| ">> \o Join(cells, " | ") \o <<" |">>

\* formatValuesAsMarkdown taking the first row for the header: the data rows
\* start at the second.
formatValuesAsMarkdown_skipfirst(values, range) ==
    IF values = None \/ Val(values) = <<>>
    THEN <<"No data found in range: ", range>>
    ELSE LET grid == Val(values)
             headers == [i \in 1..Len(grid[1]) |-> <<"Col ">> \o Digits(i)]
         IN  Join(<< <<"## Data from ", range>>,
                     <<>>,
                     TableRow(headers),
                     TableRow([i \in 1..Len(headers) |-> <<"---">>]) >>
                  \o [r \in 1..(Len(grid) - 1) |->
                         TableRow([c \in 1..Len(grid[r + 1]) |-> CellText(grid[r + 1][c])])],
                  "\n")

\* values is None when the caller passes undefined.
formatValuesAsMarkdown(values, range) ==
    IF values = None \/ Val(values) = <<>>
    THEN <<"No data found in range: ", range>>
    ELSE LET grid == Val(values)
             headers == [i \in 1..Len(grid[1]) |-> <<"Col ">> \o Digits(i)]
         IN  Join(<< <<"## Data from ", range>>,
                     <<>>,
                     TableRow(headers),
                     TableRow([i \in 1..Len(headers) |-> <<"---">>]) >>
                  \o [r \in 1..Len(grid) |->
                         TableRow([c \in 1..Len(grid[r]) |-> CellText(grid[r][c])])],
                  "\n")

DataTruncated == <<"\n\n[Data truncated...]">>

CellJson(cell) ==
    CASE cell.kind = "string" -> JsonStr(cell.v)
      [] cell.kind = "number" -> JsonNum(cell.num)
      [] cell.kind = "boolean" -> JsonBool(cell.b)
      [] cell.kind = "null" -> JsonNull

GridJson(grid) ==
    JsonArray([r \in 1..Len(grid) |->
                  JsonArray([c \in 1..Len(grid[r]) |-> CellJson(grid[r][c])])])

\* The normalized result of sheets_get_values.
ValuesOutput(params, data) ==
    [range |-> OrElse(data.range, params.range),
     majorDimension |-> OrElse(data.majorDimension, params.major_dimension),
     values |-> IF data.values = None THEN <<>> ELSE Val(data.values)]

ValuesJson(output) ==
    JsonObject(<<Prop("range", Some(JsonStr(<<output.range>>))),
                 Prop("majorDimension", Some(JsonStr(<<output.majorDimension>>))),
                 Prop("values", Some(GridJson(output.values)))>>)

\* textOutput of sheets_get_values, with the limit applied to the JSON text
\* as well.
ValuesText_limitboth(params, output) ==
    LET textOutput == Sized(IF params.response_format = "markdown"
                            THEN formatValuesAsMarkdown(Some(output.values), output.range)
                            ELSE stringify(ValuesJson(output), 0))
    IN  IF length(textOutput) > CHARACTER_LIMIT
        THEN substring(textOutput, CHARACTER_LIMIT) \o Sized(DataTruncated)
        ELSE textOutput

\* textOutput of sheets_get_values.
ValuesText(params, output) ==
    IF params.response_format = "markdown"
    THEN LET textOutput == Sized(formatValuesAsMarkdown(Some(output.values), output.range))
         IN  IF length(textOutput) > CHARACTER_LIMIT
             THEN substring(textOutput, CHARACTER_LIMIT) \o Sized(DataTruncated)
             ELSE textOutput
    ELSE Sized(stringify(ValuesJson(output), 0))

\* The handler of sheets_get_values, from the answer of the remote call on.
GetValues ==
    /\ result = None
    /\ call # None
    /\ call.tool = "sheets_get_values"
    /\ result' = Some(IF call.data = None THEN Failure(TypeError)
                      ELSE LET output == ValuesOutput(call.params, Val(call.data))
                           IN  Success(ValuesText(call.params, output), output))
    /\ UNCHANGED <<call, listParams, others_fmt>>

----------------------------------------------------------------------------
(* tools/sheets.ts: formatSheetInfo and sheets_get_spreadsheet *)

\* `${x}` for an optional string and an optional number: a property the
\* remote answer leaves out is undefined.
TemplateString(x) == IF x = None THEN <<"undefined">> ELSE <<Val(x)>>
TemplateNumber(x) == IF x = None THEN <<"undefined">> ELSE Digits(Val(x))

\* x || 0, for an optional number.
OrZero(x) == IF x = None THEN 0 ELSE Val(x)

\* props.gridProperties?.rowCount and ?.columnCount
RowCountOf(props) ==
    IF props.gridProperties = None THEN None ELSE Val(props.gridProperties).rowCount
ColumnCountOf(props) ==
    IF props.gridProperties = None THEN None ELSE Val(props.gridProperties).columnCount

formatSheetInfo(sheet) ==
    IF sheet.properties = None THEN <<"Unknown sheet">>
    ELSE LET props == Val(sheet.properties)
         IN  Join(<< <<"- **">> \o TemplateString(props.title) \o <<"** (ID: ">>
                         \o TemplateNumber(props.sheetId) \o <<")">>,
                     <<"  - Type: ", OrElse(props.sheetType, "GRID")>>,
                     <<"  - Rows: ">> \o Digits(OrZero(RowCountOf(props))),
                     <<"  - Columns: ">> \o Digits(OrZero(ColumnCountOf(props))) >>,
                  "\n")

\* The callback of (spreadsheet.sheets || []).map in the output.
SheetEntry(sheet) ==
    IF sheet.properties = None
    THEN [sheetId |-> None, title |-> "Untitled", rowCount |-> 0, columnCount |-> 0]
    ELSE LET props == Val(sheet.properties)
         IN  [sheetId |-> props.sheetId,
              title |-> OrElse(props.title, "Untitled"),
              rowCount |-> OrZero(RowCountOf(props)),
              columnCount |-> OrZero(ColumnCountOf(props))]

SheetsOf(spreadsheet) == IF spreadsheet.sheets = None THEN <<>> ELSE Val(spreadsheet.sheets)

\* The normalized result of sheets_get_spreadsheet.
SpreadsheetOutput(params, spreadsheet) ==
    [spreadsheetId |-> OrElse(spreadsheet.spreadsheetId, params.spreadsheet_id),
     title |-> IF spreadsheet.properties = None THEN "Untitled"
               ELSE OrElse(Val(spreadsheet.properties).title, "Untitled"),
     locale |-> IF spreadsheet.properties = None THEN "en_US"
                ELSE OrElse(Val(spreadsheet.properties).locale, "en_US"),
     sheets |-> [k \in 1..Len(SheetsOf(spreadsheet)) |-> SheetEntry(SheetsOf(spreadsheet)[k])],
     spreadsheetUrl |-> spreadsheet.spreadsheetUrl]

\* The markdown text of sheets_get_spreadsheet: the sheet lines are made
\* from the sheets of the remote answer, the rest from the output.
SpreadsheetMarkdown(spreadsheet, output) ==
    LET sheetInfo == Join([k \in 1..Len(SheetsOf(spreadsheet)) |->
                              formatSheetInfo(SheetsOf(spreadsheet)[k])], "\n")
    IN  Join(<< <<"# ", output.title>>,
                <<>>,
                <<"**Spreadsheet ID**: ", output.spreadsheetId>>,
                <<"**URL**: ", OrElse(output.spreadsheetUrl, "N/A")>>,
                <<"**Locale**: ", output.locale>>,
                <<>>,
                <<"## Sheets">>,
                <<>>,
                IF sheetInfo = <<>> THEN <<"No sheets found">> ELSE sheetInfo >>,
             "\n")

SpreadsheetJson(output) ==
    JsonObject(<<Prop("spreadsheetId", Some(JsonStr(<<output.spreadsheetId>>))),
                 Prop("title", Some(JsonStr(<<output.title>>))),
                 Prop("locale", Some(JsonStr(<<output.locale>>))),
                 Prop("sheets", Some(JsonArray([k \in 1..Len(output.sheets) |->
                     JsonObject(<<Prop("sheetId", IF output.sheets[k].sheetId = None THEN None
                                                  ELSE Some(JsonNum(Val(output.sheets[k].sheetId)))),
                                  Prop("title", Some(JsonStr(<<output.sheets[k].title>>))),
                                  Prop("rowCount", Some(JsonNum(output.sheets[k].rowCount))),
                                  Prop("columnCount", Some(JsonNum(output.sheets[k].columnCount)))>>)]))),
                 Prop("spreadsheetUrl", OptionalJsonStr(output.spreadsheetUrl))>>)

\* The handler of sheets_get_spreadsheet, from the answer of the remote call on.
GetSpreadsheet ==
    /\ result = None
    /\ call # None
    /\ call.tool = "sheets_get_spreadsheet"
    /\ result' = Some(IF call.data = None THEN Failure(TypeError)
                      ELSE LET output == SpreadsheetOutput(call.params, Val(call.data))
                           IN  Success(Sized(IF call.params.response_format = "markdown"
                                             THEN SpreadsheetMarkdown(Val(call.data), output)
                                             ELSE stringify(SpreadsheetJson(output), 0)),
                                       output))
    /\ UNCHANGED <<call, listParams, others_fmt>>

----------------------------------------------------------------------------
(* tools/sheets.ts: sheets_batch_get_values *)

\* The normalized result of sheets_batch_get_values.
BatchOutput(params, data) ==
    LET valueRanges == IF data.valueRanges = None THEN <<>> ELSE Val(data.valueRanges)
    IN  [spreadsheetId |-> OrElse(data.spreadsheetId, params.spreadsheet_id),
         valueRanges |-> [k \in 1..Len(valueRanges) |->
                             [range |-> valueRanges[k].range,
                              majorDimension |-> valueRanges[k].majorDimension,
                              values |-> IF valueRanges[k].values = None THEN <<>>
                                         ELSE Val(valueRanges[k].values)]]]

BatchJson(output) ==
    JsonObject(<<Prop("spreadsheetId", Some(JsonStr(<<output.spreadsheetId>>))),
                 Prop("valueRanges",
                      Some(JsonArray([k \in 1..Len(output.valueRanges) |->
                          JsonObject(<<Prop("range", OptionalJsonStr(output.valueRanges[k].range)),
                                       Prop("majorDimension",
                                            OptionalJsonStr(output.valueRanges[k].majorDimension)),
                                       Prop("values",
                                            Some(GridJson(output.valueRanges[k].values)))>>)])))>>)

\* textOutput of sheets_batch_get_values.
BatchText(params, output) ==
    IF params.response_format = "markdown"
    THEN LET rangeOutputs == [k \in 1..Len(output.valueRanges) |->
                                 formatValuesAsMarkdown(Some(output.valueRanges[k].values),
                                                        OrElse(output.valueRanges[k].range, "Unknown"))]
             textOutput == Sized(Join(rangeOutputs, "\n\n---\n\n"))
         IN  IF length(textOutput) > CHARACTER_LIMIT
             THEN substring(textOutput, CHARACTER_LIMIT) \o Sized(DataTruncated)
             ELSE textOutput
    ELSE Sized(stringify(BatchJson(output), 0))

\* The handler of sheets_batch_get_values, from the answer of the remote call on.
BatchGetValues ==
    /\ result = None
    /\ call # None
    /\ call.tool = "sheets_batch_get_values"
    /\ result' = Some(IF call.data = None THEN Failure(TypeError)
                      ELSE LET output == BatchOutput(call.params, Val(call.data))
                           IN  Success(BatchText(call.params, output), output))
    /\ UNCHANGED <<call, listParams, others_fmt>>

----------------------------------------------------------------------------
(* tools/docs.ts: docs_get_document *)

ContentTruncated == <<"\n\n[Content truncated...]">>

\* The normalized result of docs_get_document.
DocumentOutput(params, doc) ==
    [documentId |-> OrElse(doc.documentId, params.document_id),
     title |-> OrElse(doc.title, "Untitled"),
     textContent |-> extractTextFromBody(doc.body),
     revisionId |-> doc.revisionId]

DocumentJson(output) ==
    JsonObject(<<Prop("documentId", Some(JsonStr(<<output.documentId>>))),
                 Prop("title", Some(JsonStr(<<output.title>>))),
                 Prop("textContent", Some(JsonStr(output.textContent))),
                 Prop("revisionId", IF output.revisionId = None THEN None
                                    ELSE Some(JsonStr(<<Val(output.revisionId)>>)))>>)

\* textOutput of docs_get_document, with the limit applied to the whole text.
DocumentText_wholetext(params, output) ==
    IF params.response_format = "markdown"
    THEN LET textOutput ==
                 Sized(Join(<< <<"# ", output.title>>,
                               <<>>,
                               <<"**Document ID**: ", output.documentId>>,
                               <<"**Revision ID**: ", OrElse(output.revisionId, "N/A")>>,
                               <<>>,
                               <<"## Content">>,
                               <<>>,
                               output.textContent >>, "\n"))
         IN  IF length(textOutput) > CHARACTER_LIMIT
             THEN substring(textOutput, CHARACTER_LIMIT) \o Sized(ContentTruncated)
             ELSE textOutput
    ELSE Sized(stringify(DocumentJson(output), 0))

\* textOutput of docs_get_document: the lines above the content, joined, and
\* the content or its first CHARACTER_LIMIT characters and the marker.
DocumentText(params, output) ==
    IF params.response_format = "markdown"
    THEN LET textContent == Sized(output.textContent)
         IN  Sized(Join(<< <<"# ", output.title>>,
                           <<>>,
                           <<"**Document ID**: ", output.documentId>>,
                           <<"**Revision ID**: ", OrElse(output.revisionId, "N/A")>>,
                           <<>>,
                           <<"## Content">>,
                           <<>>,
                           <<>> >>, "\n"))
                 \o (IF length(textContent) > CHARACTER_LIMIT
                     THEN substring(textContent, CHARACTER_LIMIT) \o Sized(ContentTruncated)
                     ELSE textContent)
    ELSE Sized(stringify(DocumentJson(output), 0))

\* The handler of docs_get_document, from the answer of the remote call on.
GetDocument ==
    /\ result = None
    /\ call # None
    /\ call.tool = "docs_get_document"
    /\ result' = Some(IF call.data = None THEN Failure(TypeError)
                      ELSE LET output == DocumentOutput(call.params, Val(call.data))
                           IN  Success(DocumentText(call.params, output), output))
    /\ UNCHANGED <<call, listParams, others_fmt>>

----------------------------------------------------------------------------
(* tools/gmail.ts: gmail_list_labels *)

\* The label names used below, in the order of the default collation
\* (letters first, lower case before upper case), and in the order of their
\* UTF-16 code units.
CollationOrder == <<"", "alpha", "INBOX", "SENT", "work", "Work", "Zed">>
CodeUnitOrder == <<"", "INBOX", "SENT", "Work", "Zed", "alpha", "work">>

Rank(order, name) == CHOOSE k \in 1..Len(order) : order[k] = name

Sign(n) == IF n < 0 THEN -1 ELSE IF n > 0 THEN 1 ELSE 0

\* A comparison of the names by code units, as a.name < b.name would do.
localeCompare_codeunits(a, b) == Sign(Rank(CodeUnitOrder, a) - Rank(CodeUnitOrder, b))

\* String.prototype.localeCompare
localeCompare(a, b) == Sign(Rank(CollationOrder, a) - Rank(CollationOrder, b))

\* The callback of (response.data.labels || []).map
LabelEntry(label) ==
    [id |-> OrElse(label.id, ""), name |-> OrElse(label.name, ""),
     type |-> OrElse(label.type, "user")]

\* The comparator handed to labels.sort
compareLabels(a, b) ==
    IF a.type = "system" /\ b.type # "system" THEN -1
    ELSE IF a.type # "system" /\ b.type = "system" THEN 1
    ELSE localeCompare(a.name, b.name)

RECURSIVE sortLabels(_)
\* Array.prototype.sort with compareLabels: a stable sort, so an element goes
\* behind the elements before it that do not compare greater.
sortLabels(labels) ==
    IF labels = <<>> THEN <<>>
    ELSE LET sorted == sortLabels(SubSeq(labels, 1, Len(labels) - 1))
             last == labels[Len(labels)]
             p == Cardinality({j \in 1..Len(sorted) : compareLabels(sorted[j], last) <= 0})
         IN  SubSeq(sorted, 1, p) \o <<last>> \o SubSeq(sorted, p + 1, Len(sorted))

\* The normalized result of gmail_list_labels.
LabelsOutput(data) ==
    LET labels == IF data.labels = None THEN <<>> ELSE Val(data.labels)
    IN  [labels |-> sortLabels([k \in 1..Len(labels) |-> LabelEntry(labels[k])])]

LabelLine(label) == <<"- **", label.name, "** (", "U+0060", label.id, "U+0060", ")">>

LabelsMarkdown(output) ==
    LET systemLabels == SelectSeq(output.labels, LAMBDA l : l.type = "system")
        userLabels == SelectSeq(output.labels, LAMBDA l : l.type # "system")
    IN  Join(<< <<"# Gmail Labels">>, <<>>, <<"## System Labels">>, <<>> >>
                 \o [k \in 1..Len(systemLabels) |-> LabelLine(systemLabels[k])]
                 \o (IF userLabels # <<>>
                     THEN << <<>>, <<"## User Labels">>, <<>> >>
                              \o [k \in 1..Len(userLabels) |-> LabelLine(userLabels[k])]
                     ELSE <<>>),
             "\n")

LabelsJson(output) ==
    JsonObject(<<Prop("labels",
        Some(JsonArray([k \in 1..Len(output.labels) |->
            JsonObject(<<Prop("id", Some(JsonStr(<<output.labels[k].id>>))),
                         Prop("name", Some(JsonStr(<<output.labels[k].name>>))),
                         Prop("type", Some(JsonStr(<<output.labels[k].type>>)))>>)])))>>)

\* The handler of gmail_list_labels, from the answer of the remote call on.
ListLabels ==
    /\ result = None
    /\ call # None
    /\ call.tool = "gmail_list_labels"
    /\ result' = Some(IF call.data = None THEN Failure(TypeError)
                      ELSE LET output == LabelsOutput(Val(call.data))
                           IN  Success(Sized(IF call.params.response_format = "markdown"
                                             THEN LabelsMarkdown(output)
                                             ELSE stringify(LabelsJson(output), 0)),
                                       output))
    /\ UNCHANGED <<call, listParams, others_fmt>>

----------------------------------------------------------------------------
(* tools/drive.ts: formatCommentForMarkdown and drive_list_comments *)

\* x || false, for an optional boolean.
OrFalse(x) == x # None /\ Val(x)

\* author?.displayName
DisplayNameOf(author) == IF author = None THEN None ELSE Val(author).displayName

\* The callback of (c.replies || []).map
ReplyEntry(r) ==
    [id |-> OrElse(r.id, ""),
     content |-> OrElse(r.content, ""),
     author |-> OrElse(DisplayNameOf(r.author), "Unknown"),
     createdTime |-> OrElse(r.createdTime, "")]

\* The callback of (response.data.comments || []).map
CommentEntry(c) ==
    LET replies == IF c.replies = None THEN <<>> ELSE Val(c.replies)
    IN  [id |-> OrElse(c.id, ""),
         content |-> OrElse(c.content, ""),
         author |-> OrElse(DisplayNameOf(c.author), "Unknown"),
         createdTime |-> OrElse(c.createdTime, ""),
         modifiedTime |-> c.modifiedTime,
         resolved |-> OrFalse(c.resolved),
         quotedFileContent |-> IF c.quotedFileContent = None THEN None
                               ELSE Val(c.quotedFileContent).value,
         replies |-> [k \in 1..Len(replies) |-> ReplyEntry(replies[k])]]

\* The line of a reply under "**Replies**:".
ReplyLine(reply) ==
    <<"- **", reply.author, "** (", reply.createdTime, "): ", reply.content>>

\* A comment rendered without its replies.
formatCommentForMarkdown_noreplies(comment) ==
    Join(<< <<"### Comment by ", comment.author>>,
            <<"**ID**: ", comment.id>>,
            <<"**Created**: ", comment.createdTime>>,
            <<"**Status**: ", IF comment.resolved THEN "Resolved" ELSE "Open">> >>
         \o (IF ~Falsy(comment.quotedFileContent)
             THEN << <<"**Quoted Text**: \"", Val(comment.quotedFileContent), "\"">> >>
             ELSE <<>>)
         \o << <<>>, <<comment.content>> >>,
         "\n")

formatCommentForMarkdown(comment) ==
    Join(<< <<"### Comment by ", comment.author>>,
            <<"**ID**: ", comment.id>>,
            <<"**Created**: ", comment.createdTime>>,
            <<"**Status**: ", IF comment.resolved THEN "Resolved" ELSE "Open">> >>
         \o (IF ~Falsy(comment.quotedFileContent)
             THEN << <<"**Quoted Text**: \"", Val(comment.quotedFileContent), "\"">> >>
             ELSE <<>>)
         \o << <<>>, <<comment.content>> >>
         \o (IF Len(comment.replies) > 0
             THEN << <<>>, <<"**Replies**:">> >>
                      \o [k \in 1..Len(comment.replies) |-> ReplyLine(comment.replies[k])]
             ELSE <<>>),
         "\n")

\* A token of the layer's own in place of the remote one.
NextPageToken_rewritten(data) == IF Falsy(data.nextPageToken) THEN None ELSE Some("page2")

\* response.data.nextPageToken || null
NextPageToken(data) == IF Falsy(data.nextPageToken) THEN None ELSE data.nextPageToken

\* The normalized result of drive_list_comments.
CommentsOutput(data) ==
    LET comments == IF data.comments = None THEN <<>> ELSE Val(data.comments)
    IN  [comments |-> [k \in 1..Len(comments) |-> CommentEntry(comments[k])],
         next_page_token |-> NextPageToken(data)]

\* The markdown text of drive_list_comments with the comments in reverse.
CommentsMarkdown_reversed(output) ==
    LET n == Len(output.comments)
    IN  IF n = 0 THEN <<"No comments found on this document.">>
        ELSE Join(<< <<"# Comments on Document">>,
                     <<>>,
                     <<"Found ">> \o Digits(n) \o <<" comment(s)">>
                         \o (IF output.next_page_token # None THEN <<" (more available)">>
                             ELSE <<>>)
                         \o <<".">>,
                     <<>> >>
                  \o Concat([k \in 1..n |->
                                <<formatCommentForMarkdown(output.comments[n + 1 - k]),
                                  <<"---">>, <<>>>>])
                  \o (IF output.next_page_token # None
                      THEN << <<"*Use page_token=\"", Val(output.next_page_token),
                                "\" to load more comments.*">> >>
                      ELSE <<>>),
                  "\n")

\* The markdown text of drive_list_comments.
CommentsMarkdown(output) ==
    IF Len(output.comments) = 0 THEN <<"No comments found on this document.">>
    ELSE Join(<< <<"# Comments on Document">>,
                 <<>>,
                 <<"Found ">> \o Digits(Len(output.comments)) \o <<" comment(s)">>
                     \o (IF output.next_page_token # None THEN <<" (more available)">>
                         ELSE <<>>)
                     \o <<".">>,
                 <<>> >>
              \o Concat([k \in 1..Len(output.comments) |->
                            <<formatCommentForMarkdown(output.comments[k]), <<"---">>, <<>>>>])
              \o (IF output.next_page_token # None
                  THEN << <<"*Use page_token=\"", Val(output.next_page_token),
                            "\" to load more comments.*">> >>
                  ELSE <<>>),
              "\n")

\* null or a string, as a property value.
NullableJsonStr(x) == Some(IF x = None THEN JsonNull ELSE JsonStr(<<Val(x)>>))

ReplyJson(reply) ==
    JsonObject(<<Prop("id", Some(JsonStr(<<reply.id>>))),
                 Prop("content", Some(JsonStr(<<reply.content>>))),
                 Prop("author", Some(JsonStr(<<reply.author>>))),
                 Prop("createdTime", Some(JsonStr(<<reply.createdTime>>)))>>)

CommentJson(comment) ==
    JsonObject(<<Prop("id", Some(JsonStr(<<comment.id>>))),
                 Prop("content", Some(JsonStr(<<comment.content>>))),
                 Prop("author", Some(JsonStr(<<comment.author>>))),
                 Prop("createdTime", Some(JsonStr(<<comment.createdTime>>))),
                 Prop("modifiedTime", OptionalJsonStr(comment.modifiedTime)),
                 Prop("resolved", Some(JsonBool(comment.resolved))),
                 Prop("quotedFileContent", OptionalJsonStr(comment.quotedFileContent)),
                 Prop("replies", Some(JsonArray([k \in 1..Len(comment.replies) |->
                                                    ReplyJson(comment.replies[k])])))>>)

CommentsJson(output) ==
    JsonObject(<<Prop("comments", Some(JsonArray([k \in 1..Len(output.comments) |->
                                                    CommentJson(output.comments[k])]))),
                 Prop("next_page_token", NullableJsonStr(output.next_page_token))>>)

\* The arguments of comments.list.
CommentsListParams(params) ==
    [fileId |-> params.file_id,
     includeDeleted |-> params.include_deleted,
     pageSize |-> params.page_size,
     pageToken |-> params.page_token,
     fields |-> "comments(id,content,author,createdTime,modifiedTime,resolved,quotedFileContent,replies),nextPageToken"]

\* The handler of drive_list_comments: the remote call and, from its answer,
\* the result.
ListComments ==
    /\ result = None
    /\ call # None
    /\ call.tool = "drive_list_comments"
    /\ listParams' = Some(CommentsListParams(call.params))
    /\ result' = Some(IF call.data = None THEN Failure(TypeError)
                      ELSE LET output == CommentsOutput(Val(call.data))
                           IN  Success(Sized(IF call.params.response_format = "markdown"
                                             THEN CommentsMarkdown(output)
                                             ELSE stringify(CommentsJson(output), 0)),
                                       output))
    /\ UNCHANGED <<call, others_fmt>>

----------------------------------------------------------------------------
(* tools/drive.ts: formatFileForMarkdown and drive_list_files *)

\* MIME_TYPE_MAP[key]
MIME_TYPE_MAP(key) ==
    CASE key = "documents" -> Some("application/vnd.google-apps.document")
      [] key = "spreadsheets" -> Some("application/vnd.google-apps.spreadsheet")
      [] key = "presentations" -> Some("application/vnd.google-apps.presentation")
      [] key = "folders" -> Some("application/vnd.google-apps.folder")
      [] OTHER -> None

\* MIME_TYPE_DISPLAY[mimeType]
MIME_TYPE_DISPLAY(mimeType) ==
    CASE mimeType = "application/vnd.google-apps.document" -> Some("Google Doc")
      [] mimeType = "application/vnd.google-apps.spreadsheet" -> Some("Google Sheet")
      [] mimeType = "application/vnd.google-apps.presentation" -> Some("Google Slides")
      [] mimeType = "application/vnd.google-apps.folder" -> Some("Folder")
      [] mimeType = "application/vnd.google-apps.form" -> Some("Google Form")
      [] mimeType = "application/pdf" -> Some("PDF")
      [] mimeType = "image/png" -> Some("PNG Image")
      [] mimeType = "image/jpeg" -> Some("JPEG Image")
      [] OTHER -> None

\* x || undefined, for an optional string.
OrUndefined(x) == IF Falsy(x) THEN None ELSE x

RECURSIVE Number(_)
\* Number(s), for a string of decimal digits given character by character.
Number(s) ==
    LET d == <<"0", "1", "2", "3", "4", "5", "6", "7", "8", "9">>
    IN  IF s = <<>> THEN 0
        ELSE 10 * Number(SubSeq(s, 1, Len(s) - 1))
                 + (CHOOSE v \in 0..9 : d[v + 1] = s[Len(s)])

\* o.displayName || o.emailAddress || "Unknown"
OwnerName(o) == IF ~Falsy(o.displayName) THEN Val(o.displayName) ELSE OrElse(o.emailAddress, "Unknown")

\* The callback of (response.data.files || []).map; size is a string of
\* digits, given character by character.
FileEntry(f) ==
    [id |-> OrElse(f.id, ""),
     name |-> OrElse(f.name, ""),
     mimeType |-> OrElse(f.mimeType, ""),
     createdTime |-> OrUndefined(f.createdTime),
     modifiedTime |-> OrUndefined(f.modifiedTime),
     size |-> IF f.size = None \/ Val(f.size) = <<>> THEN None ELSE f.size,
     webViewLink |-> OrUndefined(f.webViewLink),
     owners |-> IF f.owners = None THEN None
                ELSE Some([k \in 1..Len(Val(f.owners)) |-> OwnerName(Val(f.owners)[k])])]

formatFileForMarkdown(file) ==
    LET typeDisplay == OrElse(MIME_TYPE_DISPLAY(file.mimeType), file.mimeType)
    IN  Join(<< <<"### ", file.name>>,
                <<"- **ID**: ", "U+0060", file.id, "U+0060">>,
                <<"- **Type**: ", typeDisplay>> >>
             \o (IF ~Falsy(file.modifiedTime)
                 THEN << <<"- **Modified**: ", Val(file.modifiedTime)>> >> ELSE <<>>)
             \o (IF file.size # None /\ Val(file.size) # <<>>
                 THEN << <<"- **Size**: ">> \o formatFileSize(Number(Val(file.size))) >> ELSE <<>>)
             \o (IF ~Falsy(file.webViewLink)
                 THEN << <<"- **Link**: ", Val(file.webViewLink)>> >> ELSE <<>>)
             \o (IF file.owners # None /\ Len(Val(file.owners)) > 0
                 THEN << <<"- **Owner**: ">>
                             \o Join([k \in 1..Len(Val(file.owners)) |-> <<Val(file.owners)[k]>>], ", ") >>
                 ELSE <<>>),
             "\n")

\* The normalized result of drive_list_files.
FilesOutput(data) ==
    LET files == IF data.files = None THEN <<>> ELSE Val(data.files)
    IN  [files |-> [k \in 1..Len(files) |-> FileEntry(files[k])],
         next_page_token |-> NextPageToken(data)]

\* The markdown text of drive_list_files.
FilesMarkdown(output) ==
    IF Len(output.files) = 0 THEN <<"No files found in Drive.">>
    ELSE Join(<< <<"# Drive Files">>,
                 <<>>,
                 <<"Found ">> \o Digits(Len(output.files)) \o <<" file(s)">>
                     \o (IF output.next_page_token # None THEN <<" (more available)">>
                         ELSE <<>>)
                     \o <<".">>,
                 <<>> >>
              \o Concat([k \in 1..Len(output.files) |->
                            <<formatFileForMarkdown(output.files[k]), <<>>>>])
              \o (IF output.next_page_token # None
                  THEN << <<"*Use page_token=\"", Val(output.next_page_token),
                            "\" to load more files.*">> >>
                  ELSE <<>>),
              "\n")

FileJson(file) ==
    JsonObject(<<Prop("id", Some(JsonStr(<<file.id>>))),
                 Prop("name", Some(JsonStr(<<file.name>>))),
                 Prop("mimeType", Some(JsonStr(<<file.mimeType>>))),
                 Prop("createdTime", OptionalJsonStr(file.createdTime)),
                 Prop("modifiedTime", OptionalJsonStr(file.modifiedTime)),
                 Prop("size", IF file.size = None THEN None ELSE Some(JsonStr(Val(file.size)))),
                 Prop("webViewLink", OptionalJsonStr(file.webViewLink)),
                 Prop("owners", IF file.owners = None THEN None
                                ELSE Some(JsonArray([k \in 1..Len(Val(file.owners)) |->
                                                        JsonStr(<<Val(file.owners)[k]>>)])))>>)

FilesJson(output) ==
    JsonObject(<<Prop("files", Some(JsonArray([k \in 1..Len(output.files) |->
                                                 FileJson(output.files[k])]))),
                 Prop("next_page_token", NullableJsonStr(output.next_page_token))>>)

\* The arguments of files.list.
FilesListParams(params) ==
    [q |-> <<"trashed = false">>
               \o (IF params.mime_type # "all" /\ MIME_TYPE_MAP(params.mime_type) # None
                   THEN <<" and mimeType = '", Val(MIME_TYPE_MAP(params.mime_type)), "'">>
                   ELSE <<>>),
     pageSize |-> params.page_size,
     pageToken |-> params.page_token,
     orderBy |-> params.order_by,
     fields |-> "files(id,name,mimeType,createdTime,modifiedTime,size,webViewLink,owners),nextPageToken"]

\* The handler of drive_list_files: the remote call and, from its answer, the
\* result.
ListFiles ==
    /\ result = None
    /\ call # None
    /\ call.tool = "drive_list_files"
    /\ listParams' = Some(FilesListParams(call.params))
    /\ result' = Some(IF call.data = None THEN Failure(TypeError)
                      ELSE LET output == FilesOutput(Val(call.data))
                           IN  Success(Sized(IF call.params.response_format = "markdown"
                                             THEN FilesMarkdown(output)
                                             ELSE stringify(FilesJson(output), 0)),
                                       output))
    /\ UNCHANGED <<call, others_fmt>>

----------------------------------------------------------------------------
(* tools/gmail.ts: gmail_list_messages and gmail_list_threads, every remote *)
(* call answered *)

\* listParams as the handlers of the two listings build it: a property is
\* set only if the argument is truthy (label_ids: if it is not empty).
MailListParams(params) ==
    [userId |-> "me",
     maxResults |-> params.max_results,
     q |-> IF ~Falsy(params.query) THEN params.query ELSE None,
     labelIds |-> IF params.label_ids # None /\ Len(Val(params.label_ids)) > 0
                  THEN params.label_ids ELSE None,
     pageToken |-> IF ~Falsy(params.page_token) THEN params.page_token ELSE None]

\* The handler of gmail_list_messages or gmail_list_threads when the list
\* call and every detail call is answered: call.details[k] is the answer to
\* the detail call for item k.
ListMail ==
    /\ result = None
    /\ call # None
    /\ call.tool \in {"gmail_list_messages", "gmail_list_threads"}
    /\ listParams' = Some(MailListParams(call.params))
    /\ result' = Some(IF call.data = None THEN Failure(TypeError)
                      ELSE LET tool == CHOOSE t \in Tools : t.name = call.tool
                               listed == Val(call.data)
                               items == ItemsOf(listed)
                               entries == [k \in 1..Len(items) |->
                                              Entry(tool, items[k], Val(call.details[k]))]
                               envelope == ListEnvelope(tool, call.params, listed, entries)
                           IN  Success(Sized(envelope.content[1].text),
                                       envelope.structuredContent))
    /\ UNCHANGED <<call, others_fmt>>

----------------------------------------------------------------------------
(* The renderers applied to bounded inputs *)

\* Rows of a generated value grid, and cells of a row, at most.
MaxRows == 2
MaxCols == 2

ResponseFormats == {"markdown", "json"}

Cells == {StringCell(<<"a">>), NullCell}

RECURSIVE RowsOf(_)
\* Every row of exactly n cells.
RowsOf(n) == IF n = 0 THEN {<<>>} ELSE {<<c>> \o r : c \in Cells, r \in RowsOf(n - 1)}

Rows == UNION {RowsOf(n) : n \in 0..MaxCols}

RECURSIVE GridsOf(_)
\* Every grid of exactly n rows: the rows may differ in length.
GridsOf(n) == IF n = 0 THEN {<<>>} ELSE {<<r>> \o g : r \in Rows, g \in GridsOf(n - 1)}

\* The generated grids, the grid of the scenario of the specification, and
\* grids whose table is as long as the limit, one character longer, and far
\* longer.
Grids ==
    UNION {GridsOf(n) : n \in 0..MaxRows}
        \cup { << <<StringCell(<<"a">>), StringCell(<<"b">>)>>,
                  <<StringCell(<<"c">>), StringCell(<<"d">>)>> >>,
               << <<StringCell(<<"t", "r", "u", "e">>), BooleanCell(TRUE)>> >>,
               << <<StringCell(<<"x{24951}">>)>> >>,
               << <<StringCell(<<"x{24952}">>)>> >>,
               << <<StringCell(<<"a">>), StringCell(<<"x{30000}">>)>>, <<NumberCell(12)>> >> }

ValuesCalls ==
    { [tool |-> "sheets_get_values",
       params |-> [range |-> "Sheet1!A1:B2", major_dimension |-> "ROWS", response_format |-> f],
       data |-> d] :
        f \in ResponseFormats,
        d \in {None} \cup
              {Some([range |-> r, majorDimension |-> Some("ROWS"), values |-> v]) :
                  r \in {None, Some("Sheet1!A1:B2")},
                  v \in {None} \cup {Some(g) : g \in Grids}} }

Documents ==
    { [documentId |-> Some("doc1"), title |-> t, revisionId |-> r, body |-> b] :
        t \in {None, Some("Notes")}, r \in {None, Some("rev1")},
        b \in { None,
                Some([content |-> Some(<<Paragraph(<<TextRun(<<"a", "b">>), TextRun(<<"c">>)>>),
                                         Table(<<<<"z">>>>)>>)]),
                Some([content |-> Some(<<Paragraph(<<TextRun(<<"x{25000}">>)>>)>>)]),
                Some([content |-> Some(<<Paragraph(<<TextRun(<<"x{25001}">>)>>)>>)]),
                Some([content |-> Some(<<Paragraph(<<TextRun(<<"a">>)>>), Table(<<<<"z">>>>),
                                         Paragraph(<<TextRun(<<"x{30000}">>), TextRun(<<"b">>)>>)>>)]) } }

DocumentCalls ==
    { [tool |-> "docs_get_document",
       params |-> [document_id |-> "doc1", response_format |-> f],
       data |-> d] :
        f \in ResponseFormats, d \in {None} \cup {Some(doc) : doc \in Documents} }

\* Number of ranges that batchGet answers with, at most.
MaxRanges == 2

ValueRanges ==
    { [range |-> Some("A1:B2"), majorDimension |-> Some("ROWS"),
       values |-> Some(<< <<StringCell(<<"a">>), NumberCell(7)>>, <<NullCell>> >>)],
      [range |-> None, majorDimension |-> None, values |-> None],
      [range |-> Some("C1"), majorDimension |-> Some("ROWS"),
       values |-> Some(<< <<StringCell(<<"x{24952}">>)>> >>)] }

RECURSIVE RangeLists(_)
\* Every sequence of exactly n value ranges.
RangeLists(n) ==
    IF n = 0 THEN {<<>>} ELSE {<<vr>> \o l : vr \in ValueRanges, l \in RangeLists(n - 1)}

BatchCalls ==
    { [tool |-> "sheets_batch_get_values",
       params |-> [spreadsheet_id |-> "s1", major_dimension |-> "ROWS", response_format |-> f],
       data |-> d] :
        f \in ResponseFormats,
        d \in {None, Some([spreadsheetId |-> None, valueRanges |-> None])} \cup
              {Some([spreadsheetId |-> Some("s1"), valueRanges |-> Some(l)]) :
                  l \in UNION {RangeLists(n) : n \in 0..MaxRanges}} }

\* Number of labels that labels.list answers with, at most.
MaxLabels == 3

Label(id, name, type) == [id |-> Some(id), name |-> Some(name), type |-> Some(type)]

\* Two system labels, four user labels of which two have the same name, and
\* a label without name and type.
Labels ==
    { Label("SENT", "SENT", "system"), Label("INBOX", "INBOX", "system"),
      Label("Label_1", "Work", "user"), Label("Label_2", "alpha", "user"),
      Label("Label_3", "Zed", "user"), Label("Label_4", "Work", "user"),
      [id |-> Some("Label_5"), name |-> None, type |-> None] }

\* Every sequence of n different labels.
LabelLists(n) == {l \in [1..n -> Labels] : \A i, j \in 1..n : l[i] = l[j] => i = j}

LabelsCalls ==
    { [tool |-> "gmail_list_labels", params |-> [response_format |-> f], data |-> d] :
        f \in ResponseFormats,
        d \in {None, Some([labels |-> None])} \cup
              {Some([labels |-> Some(l)]) : l \in UNION {LabelLists(n) : n \in 0..MaxLabels}} }

\* The page tokens a caller supplies and a remote list call answers with.
PageTokens == {None, Some(""), Some("tok1")}
NextPageTokens == {None, Some(""), Some("tok2")}

\* Replies of a generated comment, and comments of a generated list, at most.
MaxReplies == 2
MaxComments == 2

Replies ==
    { [id |-> Some("r1"), content |-> Some("first"),
       author |-> Some([displayName |-> Some("Ann")]), createdTime |-> Some("t1")],
      [id |-> Some("r2"), content |-> Some("second"), author |-> None,
       createdTime |-> Some("t2")] }

RECURSIVE ReplyLists(_)
\* Every sequence of exactly n replies.
ReplyLists(n) ==
    IF n = 0 THEN {<<>>} ELSE {<<r>> \o l : r \in Replies, l \in ReplyLists(n - 1)}

\* A comment with every property.
FullComment ==
    [id |-> Some("c1"), content |-> Some("Fix this"),
     author |-> Some([displayName |-> Some("Bob")]), createdTime |-> Some("t0"),
     modifiedTime |-> Some("t9"), resolved |-> Some(TRUE),
     quotedFileContent |-> Some([value |-> Some("quoted")]), replies |-> None]

\* The comment with every property, a comment with none, a comment whose
\* author has no display name, the comment with every property but
\* modifiedTime, and comments with replies.
Comments ==
    { FullComment,
      [id |-> None, content |-> None, author |-> None, createdTime |-> None,
       modifiedTime |-> None, resolved |-> None, quotedFileContent |-> None, replies |-> None],
      [id |-> Some("c2"), content |-> Some("Why?"), author |-> Some([displayName |-> None]),
       createdTime |-> Some("t3"), modifiedTime |-> None, resolved |-> Some(FALSE),
       quotedFileContent |-> Some([value |-> None]), replies |-> None] }
        \cup {[FullComment EXCEPT !.modifiedTime = None]}
        \cup {[FullComment EXCEPT !.id = Some("c3"), !.replies = Some(l)] :
                 l \in UNION {ReplyLists(n) : n \in 0..MaxReplies}}

RECURSIVE CommentLists(_)
\* Every sequence of exactly n comments.
CommentLists(n) ==
    IF n = 0 THEN {<<>>} ELSE {<<c>> \o l : c \in Comments, l \in CommentLists(n - 1)}

CommentsParams(token, format) ==
    [file_id |-> "f1", include_deleted |-> FALSE, page_size |-> 20, page_token |-> token,
     response_format |-> format]

\* Every list of comments without page tokens, and a comment, of few and of
\* 30,000 characters, with every pair of page tokens.
CommentsCalls ==
    { [tool |-> "drive_list_comments", params |-> CommentsParams(None, f), data |-> d] :
        f \in ResponseFormats,
        d \in {None, Some([comments |-> None, nextPageToken |-> None])} \cup
              {Some([comments |-> Some(l), nextPageToken |-> None]) :
                  l \in UNION {CommentLists(n) : n \in 0..MaxComments}} }
        \cup
    { [tool |-> "drive_list_comments", params |-> CommentsParams(t, f),
       data |-> Some([comments |-> Some(<<c>>), nextPageToken |-> nt])] :
        f \in ResponseFormats, t \in PageTokens, nt \in NextPageTokens,
        c \in {FullComment, [FullComment EXCEPT !.content = Some("x{30000}")]} }

\* Files of a generated list, at most.
MaxFiles == 2

\* A file with every property, a file with none, and a file of a type that
\* has no display name, of size 0 and with an empty list of owners.
Files ==
    { [id |-> Some("f1"), name |-> Some("Plan"),
       mimeType |-> Some("application/vnd.google-apps.document"),
       createdTime |-> Some("t0"), modifiedTime |-> Some("t1"), size |-> Some(<<"1", "2">>),
       webViewLink |-> Some("https://x/f1"),
       owners |-> Some(<<[displayName |-> Some("Ann"), emailAddress |-> Some("a@x")],
                         [displayName |-> None, emailAddress |-> Some("b@x")],
                         [displayName |-> None, emailAddress |-> None]>>)],
      [id |-> None, name |-> None, mimeType |-> None, createdTime |-> None,
       modifiedTime |-> None, size |-> None, webViewLink |-> None, owners |-> None],
      [id |-> Some("f2"), name |-> Some("notes.txt"), mimeType |-> Some("text/plain"),
       createdTime |-> Some(""), modifiedTime |-> None, size |-> Some(<<"0">>),
       webViewLink |-> None, owners |-> Some(<<>>)] }

RECURSIVE FileLists(_)
\* Every sequence of exactly n files.
FileLists(n) ==
    IF n = 0 THEN {<<>>} ELSE {<<x>> \o l : x \in Files, l \in FileLists(n - 1)}

FilesParams(token, mime_type, format) ==
    [page_size |-> 20, page_token |-> token, order_by |-> "modifiedTime desc",
     mime_type |-> mime_type, response_format |-> format]

FilesCalls ==
    { [tool |-> "drive_list_files", params |-> FilesParams(None, m, f), data |-> d] :
        f \in ResponseFormats, m \in {"all", "documents"},
        d \in {None, Some([files |-> None, nextPageToken |-> None])} \cup
              {Some([files |-> Some(l), nextPageToken |-> None]) :
                  l \in UNION {FileLists(n) : n \in 0..MaxFiles}} }
        \cup
    { [tool |-> "drive_list_files", params |-> FilesParams(t, "all", f),
       data |-> Some([files |-> Some(<<x>>), nextPageToken |-> nt])] :
        f \in ResponseFormats, t \in PageTokens, nt \in NextPageTokens, x \in Files }

MailParams(token, format) ==
    [max_results |-> 20, query |-> None, label_ids |-> Some(<<"INBOX">>), page_token |-> token,
     response_format |-> format]

\* The two Gmail listings: every list of items with every answer to each
\* detail call, and one list with every pair of page tokens.
MailCalls ==
    UNION { { [tool |-> tn[1].name, params |-> MailParams(None, f),
               data |-> Some([items |-> Some(l), nextPageToken |-> None]), details |-> ds] :
                f \in ResponseFormats, l \in ItemLists(tn[2]), ds \in [1..tn[2] -> Details(tn[1])] } :
            tn \in {u \in Tools : u.shape = "enrich"} \X (0..MaxItems) }
        \cup
    { [tool |-> t.name, params |-> MailParams(tok, f),
       data |-> d, details |-> <<>>] :
        t \in {u \in Tools : u.shape = "enrich"}, f \in ResponseFormats, tok \in PageTokens,
        d \in {None} \cup {Some([items |-> i, nextPageToken |-> nt]) :
                               i \in {None, Some(<<>>)}, nt \in NextPageTokens} }

\* Sheets of a generated spreadsheet, at most.
MaxSheets == 2

Sheet(sheetId, title, sheetType, grid) ==
    [properties |-> Some([sheetId |-> sheetId, title |-> title, sheetType |-> sheetType,
                          gridProperties |-> grid])]

\* A grid sheet with and without its type, an object sheet with the same
\* other properties, a sheet with an id only, and a sheet without properties.
Sheets ==
    { Sheet(Some(0), Some("Sheet1"), None, Some([rowCount |-> Some(10), columnCount |-> Some(5)])),
      Sheet(Some(0), Some("Sheet1"), Some("GRID"), Some([rowCount |-> Some(10), columnCount |-> Some(5)])),
      Sheet(Some(0), Some("Sheet1"), Some("OBJECT"), Some([rowCount |-> Some(10), columnCount |-> Some(5)])),
      Sheet(Some(5), None, None, None),
      [properties |-> None] }

RECURSIVE SheetLists(_)
\* Every sequence of exactly n sheets.
SheetLists(n) ==
    IF n = 0 THEN {<<>>} ELSE {<<x>> \o l : x \in Sheets, l \in SheetLists(n - 1)}

SpreadsheetCalls ==
    { [tool |-> "sheets_get_spreadsheet",
       params |-> [spreadsheet_id |-> "s1", include_grid_data |-> FALSE, response_format |-> f],
       data |-> d] :
        f \in ResponseFormats,
        d \in {None} \cup
              {Some([spreadsheetId |-> i, properties |-> p, sheets |-> s, spreadsheetUrl |-> u]) :
                  i \in {None, Some("s1")},
                  p \in {None, Some([title |-> Some("Budget"), locale |-> None])},
                  s \in {None} \cup {Some(l) : l \in UNION {SheetLists(n) : n \in 0..MaxSheets}},
                  u \in {None, Some("https://x/s1")}} }

Calls ==
    SpreadsheetCalls \cup ValuesCalls \cup BatchCalls \cup DocumentCalls \cup LabelsCalls \cup CommentsCalls
        \cup FilesCalls \cup MailCalls

InitFmt ==
    /\ call \in Calls
    /\ listParams = None
    /\ result = None
    /\ IdleErr
    /\ IdleDoc
    /\ IdleMail
    /\ IdleSrv

NextFmt ==
    \/ GetSpreadsheet
    \/ GetValues
    \/ BatchGetValues
    \/ ListLabels
    \/ GetDocument
    \/ ListComments
    \/ ListFiles
    \/ ListMail

SpecFmt == InitFmt /\ [][NextFmt]_vars

----------------------------------------------------------------------------
\* Categories in the priority order of the claim, each with its substrings.
Priority ==
    << [subs |-> {S401, SInvalidGrant}, text |-> MsgAuth, withMessage |-> FALSE],
       [subs |-> {S403}, text |-> MsgPermission, withMessage |-> FALSE],
       [subs |-> {S404}, text |-> MsgNotFound, withMessage |-> FALSE],
       [subs |-> {S429}, text |-> MsgRateLimit, withMessage |-> FALSE],
       [subs |-> {S400}, text |-> PrefixInvalid, withMessage |-> TRUE] >>

Matches(message, k) == \E s \in Priority[k].subs : includes(message, s)

\* C1: an Error is classified by the earliest category, in the order
\* 401/invalid_grant, 403, 404, 429, 400, one of whose substrings its message
\* contains; with none it gets the generic text followed by the message; a
\* value that is no Error gets the generic text followed by String(value).
C1_PriorityOrder ==
    errorText # None =>
        IF error.kind = "Error"
        THEN LET m == error.message
                 hits == {k \in 1..Len(Priority) : Matches(m, k)}
             IN  IF hits = {}
                 THEN Val(errorText) = PrefixGeneric \o m
                 ELSE LET first == CHOOSE k \in hits : \A j \in hits : k <= j
                      IN  Val(errorText) =
                              IF Priority[first].withMessage
                              THEN Priority[first].text \o m
                              ELSE Priority[first].text
        ELSE Val(errorText) = PrefixUnexpected \o String(error)

\* A message holding both "404" and "403" has been classified.
C1_Witness ==
    /\ errorText # None
    /\ error.kind = "Error"
    /\ includes(error.message, S404)
    /\ includes(error.message, S403)
    /\ Val(errorText) = MsgPermission

----------------------------------------------------------------------------
\* What a block contributes according to the claim.
Contribution(blk) ==
    IF blk.table # None THEN TableMarker
    ELSE IF blk.paragraph # None /\ Val(blk.paragraph).elements # None
    THEN LET elems == Val(Val(blk.paragraph).elements)
             text(k) == IF elems[k].textRun # None /\ Val(elems[k].textRun).content # None
                        THEN Val(Val(elems[k].textRun).content)
                        ELSE <<>>
         IN  Concat([k \in 1..Len(elems) |-> text(k)])
    ELSE <<>>

\* C9: the text extracted from a body is the concatenation, in document
\* order, of the run texts of its paragraphs, with exactly "[TABLE]" at the
\* place of each table and none of the table's cell text; a missing body or
\* missing content gives the empty string.
C9_ExtractText ==
    bodyText # None =>
        IF body = None \/ Val(body).content = None
        THEN Val(bodyText) = <<>>
        ELSE LET content == Val(Val(body).content)
             IN  Val(bodyText) = Concat([k \in 1..Len(content) |-> Contribution(content[k])])

\* A body with a table ahead of a paragraph of text has been extracted.
C9_Witness ==
    /\ bodyText # None
    /\ body # None
    /\ Val(body).content # None
    /\ Len(Val(Val(body).content)) = 2
    /\ Val(Val(body).content)[1].table # None
    /\ Val(Val(body).content)[2].paragraph # None
    /\ Val(bodyText) = TableMarker \o <<"a", "b", "c">>

----------------------------------------------------------------------------
RECURSIVE NodesOf(_)
\* Every node of a message-part tree, the root included.
NodesOf(node) ==
    {node} \cup
        (IF node.parts = None THEN {}
         ELSE UNION {NodesOf(Val(node.parts)[k]) : k \in 1..Len(Val(node.parts))})

\* The plain-text parts of a tree that carry data.
PlainPartsOf(node) == {p \in NodesOf(node) : IsPlain(p)}

\* The message body tree of the data model: a node has inline content or
\* child parts, never both.
EitherDataOrParts(node) == \A p \in NodesOf(node) : ~(HasData(p) /\ p.parts # None)

\* C10 as stated: whenever the tree holds a plain-text part, the text
\* returned is the decoded content of a plain-text part of the tree.
C10_Original ==
    (/\ mailText # None
     /\ mailPayload # None
     /\ EitherDataOrParts(Val(mailPayload))
     /\ PlainPartsOf(Val(mailPayload)) # {}) =>
        \E p \in PlainPartsOf(Val(mailPayload)) : Val(mailText) = decodeBase64(DataOf(p))

\* C10 (amended): when the node handed to extractBody carries no inline data
\* and one of its direct child parts is text/plain with non-empty data, the
\* text returned is exactly the decoded data of the first such child,
\* whatever HTML parts stand beside or before it.
C10_PlainChildFirst ==
    (/\ mailText # None
     /\ mailPayload # None
     /\ ~HasData(Val(mailPayload))
     /\ Val(mailPayload).parts # None
     /\ \E k \in 1..Len(Val(Val(mailPayload).parts)) : IsPlain(Val(Val(mailPayload).parts)[k]))
    => LET parts == Val(Val(mailPayload).parts)
       IN  \E k \in 1..Len(parts) :
               /\ IsPlain(parts[k])
               /\ \A j \in 1..(k - 1) : ~IsPlain(parts[j])
               /\ Val(mailText) = decodeBase64(DataOf(parts[k]))

\* An HTML part followed by a plain-text part: the plain text "hi" came out.
C10_Witness ==
    /\ mailText # None
    /\ mailPayload # None
    /\ ~HasData(Val(mailPayload))
    /\ Val(mailPayload).parts = Some(<<Leaf("text/html", Data(DataHtml)), Leaf("text/plain", Data(DataHi))>>)
    /\ Val(mailText) = <<"h", "i">>

\* The text that the HTML fallback makes of decoded HTML: tags removed, runs
\* of whitespace collapsed to one space, both ends trimmed.
Stripped(html) == trim(CollapseWhitespace(StripTags(html)))

\* The parts of a tree that carry data.
DataPartsOf(node) == {p \in NodesOf(node) : HasData(p)}

\* C11 as stated: for a tree whose only content is HTML (some part carries
\* data, and every part that does is text/html), the text returned is the
\* decoded HTML of such a part with its tags removed, its whitespace
\* collapsed and its ends trimmed.
C11_Original ==
    (/\ mailText # None
     /\ mailPayload # None
     /\ EitherDataOrParts(Val(mailPayload))
     /\ DataPartsOf(Val(mailPayload)) # {}
     /\ \A p \in DataPartsOf(Val(mailPayload)) : p.mimeType = "text/html") =>
        \E p \in DataPartsOf(Val(mailPayload)) :
            Val(mailText) = Stripped(decodeBase64(DataOf(p)))

\* A child of a node without inline data.
Children(node) == IF node.parts = None THEN <<>> ELSE Val(node.parts)

\* C12: for a node without inline data extractBody returns the decoded data
\* of the first text/plain child that has data; when there is none, the
\* stripped HTML of the first text/html child that has data; when there is
\* none, the first non-empty text that extractBody gives for a child, in part
\* order; and the empty string when there is none of these.  It returns for
\* every tree generated.
C12_ThreeTier ==
    (mailText # None /\ mailPayload # None /\ ~HasData(Val(mailPayload))) =>
        LET parts == Children(Val(mailPayload))
            K == 1..Len(parts)
            text == Val(mailText)
        IN  /\ (\E k \in K : IsPlain(parts[k])) =>
                   \E k \in K : /\ IsPlain(parts[k])
                                /\ \A j \in 1..(k - 1) : ~IsPlain(parts[j])
                                /\ text = decodeBase64(DataOf(parts[k]))
            /\ ((\A k \in K : ~IsPlain(parts[k])) /\ (\E k \in K : IsHtml(parts[k]))) =>
                   \E k \in K : /\ IsHtml(parts[k])
                                /\ \A j \in 1..(k - 1) : ~IsHtml(parts[j])
                                /\ text = Stripped(decodeBase64(DataOf(parts[k])))
            /\ (\A k \in K : ~IsPlain(parts[k]) /\ ~IsHtml(parts[k])) =>
                   \/ \E k \in K : /\ extractBody(Some(parts[k])) # <<>>
                                   /\ \A j \in 1..(k - 1) : extractBody(Some(parts[j])) = <<>>
                                   /\ text = extractBody(Some(parts[k]))
                   \/ /\ \A k \in K : extractBody(Some(parts[k])) = <<>>
                      /\ text = <<>>

\* The third tier at work: neither child is text/plain or text/html with
\* data, the first child yields nothing, and the text comes from the HTML
\* part nested in the second.
C12_Witness ==
    /\ mailText = Some(<<"a", " ", "b">>)
    /\ mailPayload # None
    /\ ~HasData(Val(mailPayload))
    /\ Len(Children(Val(mailPayload))) = 2
    /\ Children(Val(mailPayload))[1] = Leaf("image/png", NoData)
    /\ Children(Val(mailPayload))[2] = Multipart(NoData, <<Leaf("text/html", Data(DataHtml))>>)

----------------------------------------------------------------------------
\* The handler has returned, with or without a failure caught.
HasReturned == inv.pc = "returned"
ReturnedOk == HasReturned /\ inv.caught = None
ReturnedError == HasReturned /\ inv.caught # None
IsEnrich == inv.tool # None /\ Val(inv.tool).shape = "enrich"

\* The envelope holds exactly one content item, of type text.
OneTextItem(r) == Len(r.content) = 1 /\ r.content[1].type = "text"

\* The error envelope for the failure caught: its message and nothing else.
ErrorShape(r) ==
    /\ OneTextItem(r)
    /\ r.content[1].text = handleGoogleError(Val(inv.caught))
    /\ "structuredContent" \notin DOMAIN r

\* C2 as stated: every response, of every tool, is a single text item with
\* structuredContent on success, or a single text item holding the
\* classified error message without structuredContent on failure.
C2_Original ==
    HasReturned =>
        LET r == Val(inv.response)
        IN  IF inv.caught = None
            THEN OneTextItem(r) /\ "structuredContent" \in DOMAIN r
            ELSE ErrorShape(r)

\* C2 (amended): the two shapes hold for every tool but drive_get_file; a
\* successful drive_get_file returns one text item, followed for a PDF or an
\* image by one resource or image item, and no structuredContent; its
\* failures have the error shape of every other tool.
C2_Envelope ==
    HasReturned =>
        LET r == Val(inv.response)
        IN  IF inv.caught # None THEN ErrorShape(r)
            ELSE IF Val(inv.tool).name = "drive_get_file"
            THEN /\ Len(r.content) \in {1, 2}
                 /\ r.content[1].type = "text"
                 /\ Len(r.content) = 2 => r.content[2].type \in {"resource", "image"}
                 /\ "structuredContent" \notin DOMAIN r
            ELSE OneTextItem(r) /\ "structuredContent" \in DOMAIN r

\* drive_get_file has returned a PDF as a second content item.
C2_Witness ==
    /\ ReturnedOk
    /\ Val(inv.tool).name = "drive_get_file"
    /\ Len(Val(inv.response).content) = 2
    /\ Val(inv.response).content[2].type = "resource"

AnySecretMissing ==
    Falsy(env.GOOGLE_CLIENT_ID) \/ Falsy(env.GOOGLE_CLIENT_SECRET) \/ Falsy(env.GOOGLE_REFRESH_TOKEN)

\* C4: with a secret missing or empty the process, once main has run, has
\* exited with status 1 after one diagnostic on the error stream, the
\* transport was never connected and no handler is ever invoked; the
\* transport is connected only with the clients initialized.
C4_Startup ==
    /\ (AnySecretMissing /\ proc.pc # "start") =>
          /\ proc = [pc |-> "exited", exitCode |-> Some(1)]
          /\ Len(stderr) = 1
          /\ Head(stderr) = <<"ERROR:">> \o MissingEnvError.message
    /\ AnySecretMissing =>
          /\ transport = "closed"
          /\ inv = NoInvocation
          /\ docsClient = None /\ driveClient = None /\ sheetsClient = None
    /\ transport = "connected" =>
          /\ ~AnySecretMissing
          /\ proc.pc \in {"connecting", "running"}
          /\ oauth2Client # None /\ docsClient # None /\ driveClient # None /\ sheetsClient # None
    /\ inv.pc # "idle" => transport = "connected" /\ proc.pc = "running"

\* The process has exited on an empty refresh token, the other two being set.
C4_Witness ==
    /\ env = [GOOGLE_CLIENT_ID |-> Some("set"), GOOGLE_CLIENT_SECRET |-> Some("set"),
              GOOGLE_REFRESH_TOKEN |-> Some("")]
    /\ proc = [pc |-> "exited", exitCode |-> Some(1)]
    /\ transport = "closed"

\* C5: a listing that succeeds returns one entry per listed item, and entry k
\* is built from item k and from the response of the detail call for item k,
\* in whatever order the detail calls completed.
C5_IndexOrder ==
    (ReturnedOk /\ IsEnrich) =>
        LET items == ItemsOf(Val(Val(inv.primary)))
            entries == Val(inv.response).structuredContent.entries
        IN  /\ Len(entries) = Len(items)
            /\ \A k \in 1..Len(items) :
                   entries[k] = Entry(Val(inv.tool), items[k], Val(inv.fetch[k].raw))

\* Two different messages whose detail calls completed in reverse order and
\* with different responses.
C5_Witness ==
    /\ ReturnedOk
    /\ Val(inv.tool).name = "gmail_list_messages"
    /\ inv.order = <<2, 1>>
    /\ inv.fetch[1].raw # inv.fetch[2].raw
    /\ Val(inv.response).structuredContent.entries[1].id = "m1"
    /\ Val(inv.response).structuredContent.entries[2].id = "m2"

\* C6 as stated: a listing's response, success or error, exists only when
\* every detail call of the invocation has completed.
C6_Original ==
    (HasReturned /\ IsEnrich) =>
        \A k \in 1..Len(inv.fetch) : inv.fetch[k].state # "pending"

\* C6 (amended): a listing's success response exists only when every detail
\* call has completed; its error response exists only when the list call or
\* a detail call has failed, after every detail call has been issued, and
\* detail calls may then still be outstanding.
C6_AwaitAll ==
    (HasReturned /\ IsEnrich) =>
        /\ inv.caught = None =>
              \A k \in 1..Len(inv.fetch) : inv.fetch[k].state = "fulfilled"
        /\ (inv.caught # None /\ inv.fetch # <<>>) =>
              /\ \E k \in 1..Len(inv.fetch) : inv.fetch[k].state = "rejected"
              /\ Len(inv.fetch) = Len(ItemsOf(Val(Val(inv.primary))))
              /\ Len(inv.calls) = 1 + Len(inv.fetch)

\* An error response of a listing of two items: one detail call was
\* rejected, the other is still outstanding.
C6_Witness ==
    /\ ReturnedError
    /\ IsEnrich
    /\ Len(inv.fetch) = 2
    /\ inv.fetch[1].state = "pending"
    /\ inv.fetch[2].state = "rejected"

\* The reason of the detail call that was rejected first.
FirstRejection ==
    LET rejected == {j \in 1..Len(inv.order) : inv.fetch[inv.order[j]].state = "rejected"}
    IN  Val(inv.fetch[inv.order[First(rejected)]].reason)

\* C7: once a detail call of a listing has failed, whichever it is and
\* whatever completed before it, the invocation has returned the classified
\* message of the first failure and nothing else: no structuredContent and
\* no entry of the items whose detail call succeeded.
C7_NoPartial ==
    (IsEnrich /\ \E k \in 1..Len(inv.fetch) : inv.fetch[k].state = "rejected") =>
        /\ HasReturned
        /\ DOMAIN Val(inv.response) = {"content"}
        /\ Val(inv.response).content = <<TextItem(handleGoogleError(FirstRejection))>>

\* The first item's detail call succeeded, the second's then failed.
C7_Witness ==
    /\ HasReturned
    /\ IsEnrich
    /\ Len(inv.fetch) = 2
    /\ inv.order = <<1, 2>>
    /\ inv.fetch[1].state = "fulfilled"
    /\ inv.fetch[2].state = "rejected"
    /\ "structuredContent" \notin DOMAIN Val(inv.response)

\* C8 as stated: an invocation that has returned has issued one remote call,
\* or, for the two listings, one list call and one detail call per item
\* that the list call returned.
C8_Original ==
    HasReturned =>
        Len(inv.calls) =
            IF IsEnrich /\ inv.primary # None /\ Val(inv.primary) # None
            THEN 1 + Len(ItemsOf(Val(Val(inv.primary))))
            ELSE 1

\* The remote calls of the invocation that follow the first one.
FollowUps == SubSeq(inv.calls, 2, Len(inv.calls))

\* C8 (amended): an invocation issues exactly one remote call, except that a
\* listing follows its list call with exactly one detail call per item
\* returned, in list order; docs_create_document follows documents.create
\* with one documents.batchUpdate when an ID came back and body_content is
\* non-empty; and drive_get_file follows the metadata files.get, when it
\* succeeded, with one files.export or files.get.
C8_CallCount ==
    HasReturned =>
        LET tool == Val(inv.tool)
            answered == inv.primary # None /\ Val(inv.primary) # None
        IN  /\ inv.calls # <<>>
            /\ inv.calls[1].method = tool.method
            /\ CASE tool.shape = "single" -> FollowUps = <<>>
                 [] tool.shape = "enrich" ->
                        LET items == IF answered THEN ItemsOf(Val(Val(inv.primary))) ELSE <<>>
                        IN  FollowUps = [k \in 1..Len(items) |->
                                            Call(DetailMethod(tool), Val(items[k].id))]
                 [] tool.shape = "create" ->
                        IF answered /\ ~Falsy(Val(Val(inv.primary)).documentId)
                           /\ ~Falsy(Val(inv.params).body_content)
                        THEN Len(FollowUps) = 1 /\ FollowUps[1].method = "documents.batchUpdate"
                        ELSE FollowUps = <<>>
                 [] tool.shape = "file" ->
                        IF answered
                        THEN Len(FollowUps) = 1 /\ FollowUps[1].method \in {"files.export", "files.get"}
                        ELSE FollowUps = <<>>

\* A listing of two items has returned after three remote calls.
C8_Witness ==
    /\ ReturnedOk
    /\ IsEnrich
    /\ Len(ItemsOf(Val(Val(inv.primary)))) = 2
    /\ Len(inv.calls) = 3

----------------------------------------------------------------------------
\* A renderer has returned the success envelope, in markdown or in json mode.
Rendered == result # None /\ call.data # None
RenderedMarkdown == Rendered /\ call.params.response_format = "markdown"
RenderedJson == Rendered /\ call.params.response_format = "json"
RenderedText == Val(result).content[1].text

\* Character i of a sized text: the element it lies in and its place there,
\* or x for a character of a run.
CharOf(piece, i) ==
    IF \E r \in Runs : r[1] = piece.str THEN <<"x">> ELSE <<piece.str, i>>

RECURSIVE CharAt(_, _)
CharAt(text, i) ==
    IF i <= Head(text).len THEN CharOf(Head(text), i)
    ELSE CharAt(Tail(text), i - Head(text).len)

\* The lines that docs_get_document puts above the content, the last
\* newline included.
DocumentHeader ==
    LET output == Val(result).structuredContent
    IN  Sized(Join(<< <<"# ", output.title>>,
                      <<>>,
                      <<"**Document ID**: ", output.documentId>>,
                      <<"**Revision ID**: ", OrElse(output.revisionId, "N/A")>>,
                      <<>>,
                      <<"## Content">>,
                      <<>>,
                      <<>> >>, "\n"))

\* The markdown rendering of the call before any truncation.
Natural ==
    LET output == Val(result).structuredContent
    IN  CASE call.tool = "sheets_get_values" ->
                 Sized(formatValuesAsMarkdown(Some(output.values), output.range))
          [] call.tool = "sheets_batch_get_values" ->
                 Sized(Join([k \in 1..Len(output.valueRanges) |->
                                formatValuesAsMarkdown(Some(output.valueRanges[k].values),
                                    OrElse(output.valueRanges[k].range, "Unknown"))],
                            "\n\n---\n\n"))
          [] call.tool = "docs_get_document" ->
                 DocumentHeader \o Sized(output.textContent)
          [] call.tool = "sheets_get_spreadsheet" ->
                 Sized(SpreadsheetMarkdown(Val(call.data), output))
          [] call.tool = "gmail_list_labels" -> Sized(LabelsMarkdown(output))
          [] call.tool = "drive_list_comments" -> Sized(CommentsMarkdown(output))
          [] call.tool = "drive_list_files" -> Sized(FilesMarkdown(output))
          [] OTHER -> Sized(ListMarkdown(CHOOSE t \in Tools : t.name = call.tool,
                                         call.params, output))

\* The operations that apply CHARACTER_LIMIT.
LimitedTools == {"sheets_get_values", "sheets_batch_get_values", "docs_get_document"}

\* The truncation marker of the call's tool.
Marker ==
    IF call.tool = "docs_get_document" THEN Sized(ContentTruncated) ELSE Sized(DataTruncated)

OutputForJson ==
    LET params == [call.params EXCEPT !.response_format = "json"]
    IN  CASE call.tool = "sheets_get_values" -> ValuesOutput(params, Val(call.data))
          [] call.tool = "sheets_batch_get_values" -> BatchOutput(params, Val(call.data))
          [] call.tool = "docs_get_document" -> DocumentOutput(params, Val(call.data))
          [] call.tool = "sheets_get_spreadsheet" -> SpreadsheetOutput(params, Val(call.data))
          [] call.tool = "gmail_list_labels" -> LabelsOutput(Val(call.data))
          [] call.tool = "drive_list_comments" -> CommentsOutput(Val(call.data))
          [] call.tool = "drive_list_files" -> FilesOutput(Val(call.data))
          [] OTHER ->
                 LET tool == CHOOSE t \in Tools : t.name = call.tool
                     items == ItemsOf(Val(call.data))
                 IN  ListEnvelope(tool, params, Val(call.data),
                                  [k \in 1..Len(items) |->
                                      Entry(tool, items[k], Val(call.details[k]))]).structuredContent

\* The elements of the strings that the remote service sent and the result
\* object holds: the cells of the grids, the text of the document.
RECURSIVE GridElements(_)
GridElements(grid) ==
    IF grid = <<>> THEN {}
    ELSE LET row == Head(grid)
             strings == {c \in 1..Len(row) : row[c].kind = "string"}
         IN  UNION {{row[c].v[k] : k \in 1..Len(row[c].v)} : c \in strings}
                 \cup GridElements(Tail(grid))

DataElements ==
    LET output == Val(result).structuredContent
    IN  CASE call.tool = "sheets_get_values" -> GridElements(output.values)
          [] call.tool = "sheets_batch_get_values" ->
                 UNION {GridElements(output.valueRanges[k].values) :
                           k \in 1..Len(output.valueRanges)}
          [] call.tool = "docs_get_document" ->
                 {output.textContent[k] : k \in 1..Len(output.textContent)}
          [] call.tool = "drive_list_comments" ->
                 {output.comments[k].content : k \in 1..Len(output.comments)}
          [] OTHER -> {}

\* The serialization of the result object of the call.
OutputJson ==
    LET output == Val(result).structuredContent
    IN  CASE call.tool = "sheets_get_values" -> stringify(ValuesJson(output), 0)
          [] call.tool = "sheets_batch_get_values" -> stringify(BatchJson(output), 0)
          [] call.tool = "docs_get_document" -> stringify(DocumentJson(output), 0)
          [] call.tool = "sheets_get_spreadsheet" -> stringify(SpreadsheetJson(output), 0)
          [] call.tool = "gmail_list_labels" -> stringify(LabelsJson(output), 0)
          [] call.tool = "drive_list_comments" -> stringify(CommentsJson(output), 0)
          [] call.tool = "drive_list_files" -> stringify(FilesJson(output), 0)
          [] OTHER -> ListJson(CHOOSE t \in Tools : t.name = call.tool, output)

\* C14: in json mode the text is the serialization of the whole result
\* object, whatever its length: every string of the object stands in it
\* uncut and no marker follows; and structuredContent is, in markdown mode
\* too, the object that the handler builds in json mode.
C14_JsonComplete ==
    /\ Rendered => Val(result).structuredContent = OutputForJson
    /\ RenderedJson =>
          /\ RenderedText = Sized(OutputJson)
          /\ \A e \in DataElements :
                 \E k \in 1..Len(RenderedText) :
                     RenderedText[k] = [str |-> e, len |-> ElementLength(e)]
          /\ RenderedText[Len(RenderedText)].str = "}"

\* The json text of a document of more than 30,000 characters, in full.
C14_Witness ==
    /\ RenderedJson
    /\ call.tool = "docs_get_document"
    /\ length(RenderedText) > CHARACTER_LIMIT + 5000
    /\ \E k \in 1..Len(RenderedText) : RenderedText[k] = [str |-> "x{30000}", len |-> 30000]

RECURSIVE SplitLines(_)
\* The lines of a text: its elements between one "\n" and the next.
SplitLines(text) ==
    LET breaks == {k \in 1..Len(text) : text[k] = "\n"}
    IN  IF breaks = {} THEN <<text>>
        ELSE <<SubSeq(text, 1, First(breaks) - 1)>>
                 \o SplitLines(SubSeq(text, First(breaks) + 1, Len(text)))

\* A row of a markdown table taken apart: the texts of its cells.
RECURSIVE SplitCells(_)
SplitCells(inner) ==
    LET bars == {k \in 1..Len(inner) : inner[k] = " | "}
    IN  IF bars = {} THEN <<inner>>
        ELSE <<SubSeq(inner, 1, First(bars) - 1)>>
                 \o SplitCells(SubSeq(inner, First(bars) + 1, Len(inner)))

\* The cells of a table line "| c1 | c2 |"; a line "|  |" has the one cell "".
CellsOfLine(line) == SplitCells(SubSeq(line, 2, Len(line) - 1))

IsTableLine(line) == Len(line) >= 2 /\ line[1] = "| " /\ line[Len(line)] = " |"

\* The string of a cell as the claim gives it.
CellString(cell) ==
    CASE cell.kind = "string" -> cell.v
      [] cell.kind = "number" -> Digits(cell.num)
      [] cell.kind = "boolean" -> IF cell.b THEN <<"t", "r", "u", "e">> ELSE <<"f", "a", "l", "s", "e">>
      [] cell.kind = "null" -> <<>>

\* The cells of a row as a table line holds them: a row without cells gives
\* a line with one empty cell.
RowStrings(row) == IF row = <<>> THEN <<<<>>>> ELSE [c \in 1..Len(row) |-> CellString(row[c])]

\* sheets_get_values has returned a markdown text that was not truncated.
TableRendered ==
    /\ RenderedMarkdown
    /\ call.tool = "sheets_get_values"
    /\ length(RenderedText) <= CHARACTER_LIMIT

\* C15: the table of a non-empty grid is the title, an empty line, the
\* header row 'Col 1' .. 'Col n' for the n cells of the first row, a
\* separator row of n cells, and one data row per row of the grid, the first
\* included, in grid order, each holding the strings of the row's cells with
\* null as the empty string; an empty or missing grid gives the 'No data
\* found in range' message.
C15_Table ==
    TableRendered =>
        LET grid == Val(result).structuredContent.values
            range == Val(result).structuredContent.range
            text == [k \in 1..Len(RenderedText) |-> RenderedText[k].str]
            lines == SplitLines(text)
            n == Len(grid[1])
        IN  IF grid = <<>>
            THEN text = <<"No data found in range: ", range>>
            ELSE /\ Len(lines) = 4 + Len(grid)
                 /\ lines[1] = <<"## Data from ", range>>
                 /\ lines[2] = <<>>
                 /\ \A k \in 3..Len(lines) : IsTableLine(lines[k])
                 /\ CellsOfLine(lines[3]) =
                        IF n = 0 THEN <<<<>>>> ELSE [i \in 1..n |-> <<"Col ">> \o Digits(i)]
                 /\ CellsOfLine(lines[4]) =
                        IF n = 0 THEN <<<<>>>> ELSE [i \in 1..n |-> <<"---">>]
                 /\ \A r \in 1..Len(grid) : CellsOfLine(lines[4 + r]) = RowStrings(grid[r])

\* The scenario of the specification: the grid [["a","b"],["c","d"]] gives
\* the header 'Col 1 | Col 2' and the two data rows.
C15_Witness ==
    /\ TableRendered
    /\ Val(result).structuredContent.values =
           << <<StringCell(<<"a">>), StringCell(<<"b">>)>>,
              <<StringCell(<<"c">>), StringCell(<<"d">>)>> >>
    /\ LET lines == SplitLines([k \in 1..Len(RenderedText) |-> RenderedText[k].str])
       IN  /\ Len(lines) = 6
           /\ lines[3] = <<"| ", "Col ", "1", " | ", "Col ", "2", " |">>
           /\ lines[5] = <<"| ", "a", " | ", "b", " |">>
           /\ lines[6] = <<"| ", "c", " | ", "d", " |">>

\* gmail_list_labels has returned the labels.
LabelsRendered == Rendered /\ call.tool = "gmail_list_labels"

\* The labels as the remote service listed them, normalized.
LabelsListed ==
    LET labels == IF Val(call.data).labels = None THEN <<>> ELSE Val(Val(call.data).labels)
    IN  [k \in 1..Len(labels) |-> LabelEntry(labels[k])]

\* The one-to-one mappings of 1..n onto itself.
Orderings(n) == {p \in [1..n -> 1..n] : \A i, j \in 1..n : p[i] = p[j] => i = j}

\* System labels first; alphabetical by name among the system labels and
\* among the others.
InLabelOrder(labels) ==
    \A i, j \in 1..Len(labels) :
        i < j => /\ labels[j].type = "system" => labels[i].type = "system"
                 /\ (labels[i].type = "system") = (labels[j].type = "system") =>
                        Rank(CollationOrder, labels[i].name) <= Rank(CollationOrder, labels[j].name)

\* The label lines of the markdown text, in order.
LabelLines ==
    SelectSeq(SplitLines([k \in 1..Len(RenderedText) |-> RenderedText[k].str]),
              LAMBDA line : line # <<>> /\ line[1] = "- **")

\* The output lists the listed labels, each once, in label order, and the
\* markdown text has their lines in that order.
SortedPermutation ==
    LET listed == LabelsListed
        labels == Val(result).structuredContent.labels
    IN  /\ Len(labels) = Len(listed)
        /\ \E p \in Orderings(Len(listed)) : labels = [k \in 1..Len(listed) |-> listed[p[k]]]
        /\ InLabelOrder(labels)
        /\ RenderedMarkdown => LabelLines = [k \in 1..Len(labels) |-> LabelLine(labels[k])]

\* What the handler returns for the same labels listed in another order.
Reordered(p) == sortLabels([k \in 1..Len(LabelsListed) |-> LabelsListed[p[k]]])

DistinctNames(labels) ==
    \A i, j \in 1..Len(labels) :
        (/\ i # j
         /\ (labels[i].type = "system") = (labels[j].type = "system")) =>
            labels[i].name # labels[j].name

----------------------------------------------------------------------------
\* The four listings, the items the remote list call answered with, and the
\* entries of the structured result.
ListingTools ==
    {"gmail_list_messages", "gmail_list_threads", "drive_list_comments", "drive_list_files"}

RemoteItems ==
    LET data == Val(call.data)
    IN  CASE call.tool = "drive_list_comments" ->
                 IF data.comments = None THEN <<>> ELSE Val(data.comments)
          [] call.tool = "drive_list_files" ->
                 IF data.files = None THEN <<>> ELSE Val(data.files)
          [] OTHER -> ItemsOf(data)

StructuredItems ==
    LET output == Val(result).structuredContent
    IN  CASE call.tool = "drive_list_comments" -> output.comments
          [] call.tool = "drive_list_files" -> output.files
          [] OTHER -> output.entries

\* The elements of a sized text, and the lines of the text returned.
Plain(text) == [k \in 1..Len(text) |-> text[k].str]
MarkdownLines == SplitLines(Plain(RenderedText))

\* The heading lines of the blocks of a listing, and the ids that the ID
\* lines of the blocks show, in the order of the text.
BlockHeads ==
    SelectSeq(MarkdownLines, LAMBDA l : l # <<>> /\ l[1] \in {"### ", "### Comment by "})

BlockIds ==
    LET idLines == SelectSeq(MarkdownLines,
                             LAMBDA l : l # <<>> /\ l[1] \in {"**ID**: ", "- **ID**: "})
    IN  [k \in 1..Len(idLines) |->
            IF idLines[k][1] = "**ID**: " THEN idLines[k][2] ELSE idLines[k][3]]

\* C17: a listing of messages, threads, comments or files keeps the items
\* of the remote answer one for one and in their order: entry k of the
\* structured result is made from item k, and in markdown mode the text has
\* one block per item, block k showing the id of item k.
C17_ListOrder ==
    (Rendered /\ call.tool \in ListingTools) =>
        /\ Len(StructuredItems) = Len(RemoteItems)
        /\ \A k \in 1..Len(RemoteItems) : StructuredItems[k].id = OrElse(RemoteItems[k].id, "")
        /\ call.tool = "drive_list_comments" =>
               StructuredItems = [k \in 1..Len(RemoteItems) |-> CommentEntry(RemoteItems[k])]
        /\ call.tool = "drive_list_files" =>
               StructuredItems = [k \in 1..Len(RemoteItems) |-> FileEntry(RemoteItems[k])]
        /\ call.params.response_format = "markdown" =>
               /\ Len(BlockHeads) = Len(RemoteItems)
               /\ BlockIds = [k \in 1..Len(RemoteItems) |-> OrElse(RemoteItems[k].id, "")]

\* A markdown listing of two comments whose ids come in descending order.
C17_Witness ==
    /\ RenderedMarkdown
    /\ call.tool = "drive_list_comments"
    /\ Len(RemoteItems) = 2
    /\ BlockIds = <<"c2", "c1">>
    /\ Len(BlockHeads) = 2

----------------------------------------------------------------------------
RECURSIVE BlocksOf(_)
\* The comment blocks of a markdown listing of comments: each from its
\* heading line to the line before its "---" line.
BlocksOf(lines) ==
    LET h == First({i \in 1..Len(lines) : lines[i] # <<>> /\ lines[i][1] = "### Comment by "})
        e == First({i \in 1..Len(lines) : i > h /\ lines[i] = <<"---">>})
    IN  IF h = 0 THEN <<>>
        ELSE <<SubSeq(lines, h, e - 1)>> \o BlocksOf(SubSeq(lines, e + 1, Len(lines)))

\* The display name of an author of the remote answer is missing.
NoDisplayName(author) == author = None \/ Val(author).displayName = None

\* The replies of a comment of the remote answer.
RemoteReplies(c) == IF c.replies = None THEN <<>> ELSE Val(c.replies)

\* What the claim says of comment c of the remote answer and its entry.
RepliesKept(c, entry) ==
    /\ Len(entry.replies) = Len(RemoteReplies(c))
    /\ \A j \in 1..Len(entry.replies) :
           LET r == RemoteReplies(c)[j]
           IN  /\ entry.replies[j].id = OrElse(r.id, "")
               /\ entry.replies[j].content = OrElse(r.content, "")
               /\ entry.replies[j].createdTime = OrElse(r.createdTime, "")
               /\ entry.replies[j].author =
                      (IF NoDisplayName(r.author) THEN "Unknown" ELSE Val(Val(r.author).displayName))
    /\ entry.author = (IF NoDisplayName(c.author) THEN "Unknown" ELSE Val(Val(c.author).displayName))
    /\ entry.resolved = (IF c.resolved = None THEN FALSE ELSE Val(c.resolved))

\* What the claim says of the block of an entry in the markdown text.
RepliesSection(block, entry) ==
    LET sect == {i \in 1..Len(block) : block[i] = <<"**Replies**:">>}
        replyLines == {i \in 1..Len(block) : block[i] # <<>> /\ block[i][1] = "- **"}
    IN  IF Len(entry.replies) = 0 THEN sect = {} /\ replyLines = {}
        ELSE /\ Cardinality(sect) = 1
             /\ replyLines = {First(sect) + j : j \in 1..Len(entry.replies)}
             /\ Len(block) = First(sect) + Len(entry.replies)
             /\ \A j \in 1..Len(entry.replies) :
                    LET line == block[First(sect) + j]
                    IN  /\ line[2] = entry.replies[j].author
                        /\ line[4] = entry.replies[j].createdTime
                        /\ line[6] = entry.replies[j].content

\* C18: a comment keeps its replies in the order of the remote answer; the
\* author of a comment or reply is "Unknown" when its display name is
\* missing, and resolved is false when missing; in markdown a comment with
\* replies has one "**Replies**:" section that lists every reply in order
\* with author and timestamp, and a comment without replies has none.
C18_Replies ==
    (Rendered /\ call.tool = "drive_list_comments") =>
        /\ \A k \in 1..Len(RemoteItems) : RepliesKept(RemoteItems[k], StructuredItems[k])
        /\ call.params.response_format = "markdown" =>
               LET blocks == BlocksOf(MarkdownLines)
               IN  /\ Len(blocks) = Len(StructuredItems)
                   /\ \A k \in 1..Len(blocks) : RepliesSection(blocks[k], StructuredItems[k])

\* A markdown listing of a comment without replies and a comment with two
\* replies, the second by an author with a display name and the first not.
C18_Witness ==
    /\ RenderedMarkdown
    /\ call.tool = "drive_list_comments"
    /\ Len(StructuredItems) = 2
    /\ StructuredItems[1].replies = <<>>
    /\ StructuredItems[1].author = "Unknown"
    /\ Len(StructuredItems[2].replies) = 2
    /\ StructuredItems[2].replies[1].author = "Unknown"
    /\ StructuredItems[2].replies[2].author = "Ann"
    /\ \E i \in 1..Len(MarkdownLines) : MarkdownLines[i] = <<"**Replies**:">>

----------------------------------------------------------------------------
\* A listing has made its list call; the token it sent and the token of its
\* structured result.
Listed == result # None /\ call.tool \in ListingTools
SentPageToken == Val(listParams).pageToken
ResultPageToken == Val(result).structuredContent.next_page_token

\* C19 as stated: whatever page_token the caller supplies is the pageToken
\* of the list call, and next_page_token is the remote nextPageToken, null
\* only when the remote answer has none.
C19_Original ==
    Listed =>
        /\ call.params.page_token # None => SentPageToken = call.params.page_token
        /\ call.data # None => ResultPageToken = Val(call.data).nextPageToken

\* C19: a page_token that is not empty is the pageToken of the list call,
\* unchanged; an empty one is sent as it is by the Drive listings and left
\* out by the Gmail listings.  next_page_token is the remote nextPageToken
\* when that is a string that is not empty, and null when the remote answer
\* has none or an empty one.
C19_Tokens ==
    Listed =>
        /\ ~Falsy(call.params.page_token) => SentPageToken = call.params.page_token
        /\ call.params.page_token = None => SentPageToken = None
        /\ call.params.page_token = Some("") =>
               SentPageToken = (IF call.tool \in {"drive_list_comments", "drive_list_files"}
                                THEN Some("") ELSE None)
        /\ call.data # None =>
               ResultPageToken = (IF Falsy(Val(call.data).nextPageToken) THEN None
                                  ELSE Val(call.data).nextPageToken)

\* A listing of comments called with a page token, the remote answer holding
\* the token of the next page.
C19_Witness ==
    /\ Listed
    /\ call.tool = "drive_list_comments"
    /\ call.params.page_token = Some("tok1")
    /\ SentPageToken = Some("tok1")
    /\ call.data # None
    /\ Val(call.data).nextPageToken = Some("tok2")
    /\ ResultPageToken = Some("tok2")

----------------------------------------------------------------------------
\* The structured result and the markdown text of sheets_get_spreadsheet and
\* of drive_list_comments for a call c whose remote call is answered.
OutputOf(c) ==
    IF c.tool = "sheets_get_spreadsheet" THEN SpreadsheetOutput(c.params, Val(c.data))
    ELSE CommentsOutput(Val(c.data))

MarkdownOf(c) ==
    IF c.tool = "sheets_get_spreadsheet"
    THEN SpreadsheetMarkdown(Val(c.data), OutputOf(c))
    ELSE CommentsMarkdown(OutputOf(c))

\* The calls of the same tool with the same arguments as the call made.
SameCalls == {c \in Calls : c.tool = call.tool /\ c.params = call.params /\ c.data # None}

\* C20 as stated, for the two operations whose text is not truncated: the
\* markdown text is determined by the structured result (it shows nothing
\* that the result lacks) and the structured result by the markdown text
\* (the text omits nothing): a call has the same result as the call made
\* exactly if it has the same text.
C20_Original ==
    (RenderedMarkdown /\ call.tool \in {"sheets_get_spreadsheet", "drive_list_comments"}) =>
        \A c \in SameCalls :
            (OutputOf(c) = Val(result).structuredContent) <=> (MarkdownOf(c) = Plain(RenderedText))

----------------------------------------------------------------------------
\* The handles as initializeGoogleAuth assigns them, and before it has run.
HandlesAssigned ==
    /\ oauth2Client = OAuth2Handle(env)
    /\ docsClient = ApiHandle("docs", "v1")
    /\ driveClient = ApiHandle("drive", "v3")
    /\ sheetsClient = ApiHandle("sheets", "v4")

HandlesNull ==
    oauth2Client = None /\ docsClient = None /\ driveClient = None /\ sheetsClient = None

\* What a getter gives: the handle of its module variable, or the error
\* "Google auth not initialized", and never null.
GetterSound(got, handle) ==
    IF got.threw THEN handle = None /\ got.error = NotInitializedError
    ELSE got.client # None /\ Some(got.client) = handle

\* C21: the handles are null until initializeGoogleAuth has run and from
\* then on hold the values it gave them, in every state and whatever the
\* handlers do; a getter gives the handle or throws the not-initialized
\* error, and a handler that runs has got the handle.
C21_Handles ==
    /\ HandlesNull \/ HandlesAssigned
    /\ proc.pc = "start" => HandlesNull
    /\ proc.pc \in {"connecting", "running"} => HandlesAssigned
    /\ inv.pc # "idle" => HandlesAssigned /\ inv.caught # Some(NotInitializedError)
    /\ GetterSound(getDocsClient, docsClient)
    /\ GetterSound(getDriveClient, driveClient)
    /\ GetterSound(getSheetsClient, sheetsClient)

\* A handler of a Drive tool has returned its result, the handles being
\* those of start-up.
C21_Witness ==
    /\ inv.pc = "returned"
    /\ Val(inv.tool).client = "drive"
    /\ inv.caught = None
    /\ HandlesAssigned
    /\ ~getDriveClient.threw
    /\ getDriveClient.client = [api |-> "drive", version |-> "v3"]

----------------------------------------------------------------------------
\* The failure that rejected Promise.all of invocation i: the reason of the
\* detail call that was the first to fail.
FirstRejectionOf(i) ==
    LET rejected == {j \in 1..Len(i.order) : i.fetch[i.order[j]].state = "rejected"}
    IN  Val(i.fetch[i.order[First(rejected)]].reason)

\* The result of invocation i run alone: what its handler returns given the
\* arguments of i and the answers that the remote calls of i got (the data of
\* the first call in primary, the data of the detail calls in fetch, the
\* failure of a rejected call in raised).
SoloResult(i) ==
    LET tool == Val(i.tool)
        params == Val(i.params)
    IN  IF i.primary = None THEN Failure(i.raised[1])
        ELSE IF Val(i.primary) = None /\ tool.name \notin IgnoresResponse THEN Failure(TypeError)
        ELSE CASE tool.shape = "enrich" ->
                      LET listed == Val(Val(i.primary))
                          items == ItemsOf(listed)
                      IN  IF \E k \in 1..Len(i.fetch) : i.fetch[k].state = "rejected"
                          THEN Failure(FirstRejectionOf(i))
                          ELSE ListEnvelope(tool, params, listed,
                                   [k \in 1..Len(items) |->
                                       Entry(tool, items[k], Val(i.fetch[k].raw))])
               [] tool.shape = "create" ->
                      LET data == Val(Val(i.primary))
                          output == CreateOutput(params, data)
                      IN  IF Falsy(data.documentId) THEN Failure(NoDocumentIdError)
                          ELSE IF i.raised # <<>> THEN Failure(i.raised[1])
                          ELSE Success(CreateText(output), output)
               [] OTHER ->
                      LET output == SingleOutput(tool, Val(Val(i.primary)))
                      IN  Success(SingleText(tool, params, output), output)

\* C22: with two invocations in flight, their handlers taking turns at the
\* remote calls in any order, each invocation returns what it returns when
\* run alone with the same arguments and the same remote answers.
C22_Stateless ==
    /\ inv.pc = "returned" => Val(inv.response) = SoloResult(inv)
    /\ other.pc = "returned" => Val(other.response) = SoloResult(other)

\* A listing returned in json mode after a second listing, in markdown mode,
\* had started and returned while the first waited for its detail calls.
C22_Witness ==
    /\ inv.pc = "returned" /\ other.pc = "returned"
    /\ Val(inv.tool).name = "gmail_list_messages"
    /\ Val(other.tool).name = "gmail_list_messages"
    /\ Val(inv.params).response_format = "json"
    /\ Val(other.params).response_format = "markdown"
    /\ inv.caught = None /\ other.caught = None
    /\ Len(inv.fetch) = 2 /\ Len(other.fetch) = 1
    /\ Val(inv.response) # Val(other.response)

----------------------------------------------------------------------------
\* The message of a classified Error holds the status line of a throttled
\* request.
Throttled ==
    /\ errorText # None
    /\ error.kind = "Error"
    /\ includes(error.message, TooManyRequests)

\* The message holds a substring of a category tested before 429.
EarlierCategory(message) ==
    \/ includes(message, <<"4", "0", "1">>)
    \/ includes(message, SInvalidGrant)
    \/ includes(message, <<"4", "0", "3">>)
    \/ includes(message, <<"4", "0", "4">>)

\* C23 as stated: every message containing "429 Too Many Requests" is
\* classified to the rate-limit message.
C23_Original == Throttled => Val(errorText) = MsgRateLimit

\* C23: a message containing "429 Too Many Requests" and none of "401",
\* "invalid_grant", "403", "404" is classified to the rate-limit message; no
\* message containing it gets the generic fallback or the invalid-request
\* text, whatever else it contains.
C23_RateLimit ==
    Throttled =>
        /\ ~EarlierCategory(error.message) => Val(errorText) = MsgRateLimit
        /\ Val(errorText) \in {MsgAuth, MsgPermission, MsgNotFound, MsgRateLimit}

\* A message with text before the status line has been classified to the
\* rate-limit message.
C23_Witness ==
    /\ Throttled
    /\ error.message = <<"x">> \o TooManyRequests
    /\ Val(errorText) = MsgRateLimit

----------------------------------------------------------------------------
\* The classification of every thrown value with the message of the
\* classified one gives the text obtained.
SameMessageSameText ==
    error.kind = "Error" =>
        \A v \in AnyValues :
            v.kind = "Error" /\ v.message = error.message
                => handleGoogleError(v) = Val(errorText)

\* C24 as stated: for every value, Error or not, handleGoogleError returns a
\* text that begins with "Error:" and does not throw, and a message classified
\* again gets the same text.
C24_Original ==
    errorText # None =>
        /\ Head(Val(errorText)) = "Error:"
        /\ SameMessageSameText

----------------------------------------------------------------------------
\* The number of remote calls the code of the handler can issue in one run:
\* one per call site, and for a listing one per item of the list answer.
CallSites(i) ==
    LET tool == Val(i.tool)
    IN  CASE tool.shape = "single" -> 1
          [] tool.shape \in {"create", "file"} -> 2
          [] tool.shape = "enrich" ->
                 IF i.primary # None /\ Val(i.primary) # None
                 THEN 1 + Len(ItemsOf(Val(Val(i.primary))))
                 ELSE 1

\* Every call site has issued its request at most once: the first call is
\* the only one of its site, no more calls are out than there are call sites,
\* and a listing has one detail call per promise it waits for.
IssuedOnce ==
    inv.pc # "idle" =>
        /\ Len(SelectSeq(inv.calls, LAMBDA c : c.key = "primary")) <= 1
        /\ Len(inv.calls) <= CallSites(inv)
        /\ Val(inv.tool).shape = "enrich" /\ inv.fetch # <<>>
               => Len(inv.calls) = 1 + Len(inv.fetch)

\* A failure has reached the invocation: an error was raised in its try
\* block, or one of its detail calls was rejected.
HasFailed(i) ==
    \/ i.raised # <<>>
    \/ \E k \in 1..Len(i.fetch) : i.fetch[k].state = "rejected"

\* A step of an invocation in which or before which a failure reached it
\* issues no remote call.
NoCallAfterFailure ==
    (inv.pc # "idle" /\ inv'.pc # "idle" /\ (HasFailed(inv) \/ HasFailed(inv')))
        => inv'.calls = inv.calls

\* An invocation that has returned after a failure returned the error
\* response.
ErrorReturned ==
    (inv.pc = "returned" /\ inv.raised # <<>>) =>
        Val(inv.response) = Failure(inv.raised[1])

\* C25: no retries. Within one invocation each remote request is issued at
\* most once, and once a remote call of the invocation has failed the handler
\* issues no further remote call and returns the error response.
C25_NoRetries == [](IssuedOnce /\ ErrorReturned) /\ [][NoCallAfterFailure]_vars

\* drive_get_file has returned the error response after its second call,
\* the download, was rejected: two calls were issued, none after the failure.
C25_Witness ==
    /\ inv.pc = "returned"
    /\ Val(inv.tool).name = "drive_get_file"
    /\ inv.raised = <<Err(S404)>>
    /\ Len(inv.calls) = 2
    /\ Val(inv.response) = Failure(Err(S404))

----------------------------------------------------------------------------
\* docs_create_document is running or has returned.
Creating == inv.pc # "idle" /\ Val(inv.tool).name = "docs_create_document"

\* documents.create has answered with a document ID.
CreatedId ==
    IF inv.primary # None /\ Val(inv.primary) # None
       /\ ~Falsy(Val(Val(inv.primary)).documentId)
    THEN Val(Val(inv.primary)).documentId
    ELSE None

\* The places of documents.batchUpdate among the calls of the invocation.
InsertCalls == {k \in 1..Len(inv.calls) : inv.calls[k].method = "documents.batchUpdate"}

\* C26: docs_create_document issues the insertText batch update only after
\* documents.create has returned a document ID, for that document, and only
\* when body_content is non-empty; when documents.create has returned no ID
\* the create call stays the only call; and when the batch update fails after
\* the create succeeded, the response is the classified error alone, without
\* the document ID and without structuredContent.
C26_CreateThenInsert ==
    Creating =>
        /\ InsertCalls \subseteq {2}
        /\ InsertCalls # {} =>
               /\ CreatedId # None
               /\ inv.calls[2].key = Val(CreatedId)
               /\ ~Falsy(Val(inv.params).body_content)
        /\ (inv.primary # None /\ CreatedId = None) => Len(inv.calls) = 1
        /\ (inv.pc = "returned" /\ InsertCalls # {} /\ inv.raised # <<>>) =>
               LET response == Val(inv.response)
               IN  /\ DOMAIN response = {"content"}
                   /\ response.content = <<TextItem(handleGoogleError(inv.raised[1]))>>
                   /\ \A k \in 1..Len(response.content[1].text) :
                          response.content[1].text[k] # Val(CreatedId)

\* The create call returned the ID doc1, the batch update was issued for
\* doc1 and was rejected, and the handler has returned.
C26_Witness ==
    /\ Creating
    /\ inv.pc = "returned"
    /\ CreatedId = Some("doc1")
    /\ inv.calls = <<Call("documents.create", "primary"), Call("documents.batchUpdate", "doc1")>>
    /\ inv.raised = <<Err(S404)>>
    /\ Val(inv.response) = [content |-> <<TextItem(MsgNotFound)>>]

----------------------------------------------------------------------------
\* The node carries inline encoded data: a body whose data is a non-empty
\* string.
InlineData(node) == node.body # None /\ Val(node.body).data \notin {None, Some(<<>>)}

\* The node has a child that the three-tier selection would return from.
SelectableChild(node) ==
    /\ node.parts # None
    /\ \E k \in 1..Len(Val(node.parts)) :
           LET part == Val(node.parts)[k]
           IN  part.mimeType \in {"text/plain", "text/html"} /\ InlineData(part)

\* C27: when the node passed to extractBody carries inline data, the result
\* is the decoded data as it is, whatever the content type of the node and
\* whatever its child parts; a result taken from the child parts is obtained
\* only for a node without inline data.
C27_InlineFirst ==
    (mailText # None /\ mailPayload # None) =>
        LET node == Val(mailPayload)
            own == decodeBase64(Val(Val(node.body).data))
        IN  /\ InlineData(node) => Val(mailText) = own
            /\ (SelectableChild(node) /\ Val(mailText) # <<>>
                   /\ \E k \in 1..Len(Val(node.parts)) :
                          LET part == Val(node.parts)[k]
                          IN  /\ InlineData(part)
                              /\ Val(mailText) \in
                                     {decodeBase64(DataOf(part)),
                                      trim(CollapseWhitespace(StripTags(decodeBase64(DataOf(part)))))}
                              /\ InlineData(node) => Val(mailText) # own)
                  => ~InlineData(node)

\* A multipart node with data of its own and a plain-text child: the result
\* is the decoded data of the node, not the text of the child.
C27_Witness ==
    /\ mailText # None /\ mailPayload # None
    /\ LET node == Val(mailPayload)
       IN  /\ InlineData(node)
           /\ node.mimeType = "multipart/alternative"
           /\ node.parts # None
           /\ Len(Val(node.parts)) >= 1
           /\ Val(node.parts)[1] = Leaf("text/plain", Data(DataHi))
           /\ Val(mailText) = decodeBase64(DataOk)
           /\ Val(mailText) # decodeBase64(DataHi)

----------------------------------------------------------------------------
\* docs_get_document has returned the document in markdown mode.
DocumentRendered == RenderedMarkdown /\ call.tool = "docs_get_document"

\* The text extracted from the body of the document.
ExtractedText == Sized(extractTextFromBody(Val(call.data).body))

\* C28: in markdown mode docs_get_document returns the header lines as they
\* are, followed by the extracted body text when that has at most 25,000
\* characters, and otherwise by its first 25,000 characters and the marker
\* "[Content truncated...]": the limit is applied to the body text alone.
C28_BodyLimit ==
    DocumentRendered =>
        LET text == RenderedText
            head == length(DocumentHeader)
            extracted == ExtractedText
            marker == Sized(ContentTruncated)
        IN  /\ \A i \in 1..head : CharAt(text, i) = CharAt(DocumentHeader, i)
            /\ IF length(extracted) <= CHARACTER_LIMIT
               THEN /\ length(text) = head + length(extracted)
                    /\ \A i \in 1..length(extracted) : CharAt(text, head + i) = CharAt(extracted, i)
               ELSE /\ length(text) = head + CHARACTER_LIMIT + length(marker)
                    /\ \A i \in 1..CHARACTER_LIMIT : CharAt(text, head + i) = CharAt(extracted, i)
                    /\ SubSeq(text, Len(text) - Len(marker) + 1, Len(text)) = marker

\* A body text of more than 25,000 characters: the returned text is longer
\* than 25,000 characters and the marker.
C28_Witness ==
    /\ DocumentRendered
    /\ length(ExtractedText) > CHARACTER_LIMIT
    /\ length(RenderedText) > CHARACTER_LIMIT + length(Sized(ContentTruncated))
    /\ length(RenderedText) =
           length(DocumentHeader) + CHARACTER_LIMIT + length(Sized(ContentTruncated))

----------------------------------------------------------------------------
\* The lines of the table that sheets_get_values has returned.
TableLines == SplitLines([k \in 1..Len(RenderedText) |-> RenderedText[k].str])

\* C29 as stated: every data row of the table has as many cells as its
\* header row, whatever the lengths of the rows of the grid.
C29_Original ==
    (TableRendered /\ Val(result).structuredContent.values # <<>>) =>
        \A k \in 5..Len(TableLines) :
            Len(CellsOfLine(TableLines[k])) = Len(CellsOfLine(TableLines[3]))

----------------------------------------------------------------------------
\* The remote methods that read: get, list, batchGet and export.
ReadMethods ==
    {"spreadsheets.get", "spreadsheets.values.get", "spreadsheets.values.batchGet",
     "users.messages.list", "users.messages.get", "users.threads.list", "users.threads.get",
     "users.labels.list", "comments.list", "files.list", "files.get", "files.export",
     "documents.get"}

\* The remote methods that change remote state: create, update, append,
\* batchUpdate, clear and delete.
MutatingMethods ==
    {"spreadsheets.values.update", "spreadsheets.values.append", "spreadsheets.create",
     "spreadsheets.batchUpdate", "spreadsheets.values.clear", "comments.create",
     "replies.create", "comments.update", "comments.delete", "documents.create",
     "documents.batchUpdate"}

\* The methods of the remote calls the invocation has issued.
MethodsCalled == {inv.calls[k].method : k \in 1..Len(inv.calls)}

\* C30: an invocation of a tool registered with readOnlyHint true issues
\* read calls only, and an invocation that issues a mutating call is of a
\* tool registered with readOnlyHint false; every call is of one of the two
\* kinds.
C30_ReadOnlyHint ==
    inv.pc # "idle" =>
        /\ MethodsCalled \subseteq ReadMethods \cup MutatingMethods
        /\ Val(inv.tool).readOnlyHint => MethodsCalled \subseteq ReadMethods
        /\ MethodsCalled \cap MutatingMethods # {} => ~Val(inv.tool).readOnlyHint

\* drive_get_file, a reader, has returned after files.get and files.export;
\* no mutating call was issued.
C30_Witness ==
    /\ inv.pc = "returned"
    /\ Val(inv.tool).name = "drive_get_file"
    /\ Val(inv.tool).readOnlyHint
    /\ inv.caught = None
    /\ MethodsCalled = {"files.get", "files.export"}

====
